---- MODULE Spec2Model ----
(***************************************************************************)
(* A model of the PNaCl ABI verifier: the function pass                    *)
(* (PNaClABIVerifyFunctions) and the module pass (PNaClABIVerifyModule,    *)
(* the newer copy) of lib/Analysis/NaCl/PNaClABIVerifyFunctions.cpp.       *)
(*                                                                         *)
(* IR entities are records.  A Type is a record keyed by k; a Value is a   *)
(* record keyed by kind; an Instruction is a record keyed by op.  The      *)
(* classification operators replace isa<> / dyn_cast<>.                    *)
(***************************************************************************)
EXTENDS Integers, Sequences, FiniteSets, TLC

VARIABLES
  AllowDebugMetadata, \* cl::opt PNaClABIAllowDebugMetadata
  StreamingMode,      \* PNaClABIVerifyModule::StreamingMode
  Errors,             \* Reporter: the diagnostics added by addError(), in order
  FatalChecks,        \* Reporter: checkForFatalErrors() calls since the last reset
  pc,                 \* position of the running pass
  F,                  \* function pass: the function handed to runOnFunction
  BI,                 \* function pass: index of the basic block being walked
  II,                 \* function pass: index of the instruction in that block
  M,                  \* module pass: the module handed to runOnModule
  MI,                 \* module pass: index in the list being walked
  SeenEntryPoint,     \* PNaClABIVerifyModule::SeenEntryPoint
  Result,             \* what the pass returned ("none" until it returns)
  AlignmentCall       \* a call of isAllowedAlignment: its arguments and its result

vars == <<AllowDebugMetadata, StreamingMode, Errors, FatalChecks, pc, F, BI, II,
          M, MI, SeenEntryPoint, Result, AlignmentCall>>

(***************************************************************************)
(* Types                                                                   *)
(***************************************************************************)
VoidTy == [k |-> "void"]
LabelTy == [k |-> "label"]
MetadataTy == [k |-> "metadata"]
FloatTy == [k |-> "float"]
DoubleTy == [k |-> "double"]
IntTy(w) == [k |-> "int", w |-> w]
VecTy(e, n) == [k |-> "vec", elt |-> e, n |-> n]
PtrTy(t, as) == [k |-> "ptr", to |-> t, as |-> as]
FnTy(ret, params, va) == [k |-> "fn", ret |-> ret, params |-> params, vararg |-> va]
ArrayTy(e, n) == [k |-> "array", elt |-> e, n |-> n]
StructTy(packed, named, fields) ==
  [k |-> "struct", packed |-> packed, named |-> named, fields |-> fields]

isIntegerTy(Ty) == Ty.k = "int"
isIntegerTyW(Ty, w) == Ty.k = "int" /\ Ty.w = w
isPointerTy(Ty) == Ty.k = "ptr"
isVectorTy(Ty) == Ty.k = "vec"

\* PNaClABITypeChecker::isValidScalarType.  Only its declaration is in the
\* sources.  The widths, float and double follow the specification.  Void
\* is not in the specification's list: it is admitted here as an assumption
\* about the absent body, because the result-type test of runOnFunction
\* (545-548) has no case of its own for void, every basic block ends in a
\* terminator of type void, and the repository's test runs the verifier
\* over `ret void` expecting no "disallowed" line (global-attributes.ll,
\* 21-37).  Nothing is claimed from this assumption alone.
ValidIntWidths == {1, 8, 16, 32, 64}

isValidScalarType(Ty) ==
  \/ Ty.k \in {"void", "float", "double"}
  \/ Ty.k = "int" /\ Ty.w \in ValidIntWidths

\* PNaClABITypeChecker::isValidVectorType: a fixed table of 128-bit vectors
\* (and the matching i1 mask vectors).
ValidVectorShapes ==
  {VecTy(IntTy(1), 4), VecTy(IntTy(1), 8), VecTy(IntTy(1), 16),
   VecTy(IntTy(8), 16), VecTy(IntTy(16), 8), VecTy(IntTy(32), 4),
   VecTy(FloatTy, 4)}

isValidVectorType(Ty) == Ty \in ValidVectorShapes

\* PNaClABITypeChecker::isValidParamType: a scalar other than i1, or a vector.
isValidParamType(Ty) ==
  \/ isValidScalarType(Ty) /\ ~isIntegerTyW(Ty, 1)
  \/ isValidVectorType(Ty)

\* PNaClABITypeChecker::isValidFunctionType
isValidFunctionType(FTy) ==
  /\ ~FTy.vararg
  /\ isValidParamType(FTy.ret)
  /\ \A i \in 1..Len(FTy.params) :
       isValidParamType(FTy.params[i]) /\ FTy.params[i] # VoidTy

isValidPointerType_AnyAddrSpace(Ty) ==
  /\ Ty.k = "ptr"
  /\ \/ isValidScalarType(Ty.to) /\ ~isIntegerTyW(Ty.to, 1)
     \/ isValidVectorType(Ty.to) /\ ~isIntegerTyW(Ty.to.elt, 1)
     \/ Ty.to.k = "fn" /\ isValidFunctionType(Ty.to)

isValidPointerType(Ty) ==
  /\ Ty.k = "ptr"
  /\ Ty.as = 0
  /\ \/ isValidScalarType(Ty.to) /\ ~isIntegerTyW(Ty.to, 1)
     \/ isValidVectorType(Ty.to) /\ ~isIntegerTyW(Ty.to.elt, 1)
     \/ Ty.to.k = "fn" /\ isValidFunctionType(Ty.to)

(***************************************************************************)
(* Values.  kind is the Value subclass:                                    *)
(*   inst (op: its opcode; intr: it is an IntrinsicInst), arg, bb,         *)
(*   cint (val), cfp, undef, null, cexpr, cvec (constant vector),          *)
(*   gvar (GlobalVariable), func (Function; intr: isIntrinsic(), iid:      *)
(*   getIntrinsicID()),                                                    *)
(*   alias (GlobalAlias), asm (InlineAsm), md (MDNode).                    *)
(* castOfInherent records, for a bitcast result, whether the operand of    *)
(* that bitcast is an InherentPtr.                                         *)
(***************************************************************************)
Val(kind, ty) ==
  [kind |-> kind, ty |-> ty, op |-> "none", intr |-> FALSE, iid |-> "not_intrinsic",
   val |-> 0, castOfInherent |-> FALSE]
InstVal(op, ty) == [Val("inst", ty) EXCEPT !.op = op]
IntrinsicCallVal(ty) == [Val("inst", ty) EXCEPT !.op = "Call", !.intr = TRUE]
BitCastVal(ty, inh) == [Val("inst", ty) EXCEPT !.op = "BitCast", !.castOfInherent = inh]
ConstInt(ty, n) == [Val("cint", ty) EXCEPT !.val = n]
IntrinsicFuncVal(ty, iid) == [Val("func", ty) EXCEPT !.intr = TRUE, !.iid = iid]

isaInstruction(V) == V.kind = "inst"
isaArgument(V) == V.kind = "arg"
isaBasicBlock(V) == V.kind = "bb"
isaConstantInt(V) == V.kind = "cint"
isaConstantFP(V) == V.kind = "cfp"
isaUndefValue(V) == V.kind = "undef"
isaMDNode(V) == V.kind = "md"
isaInlineAsm(V) == V.kind = "asm"
isaGlobalValue(V) == V.kind \in {"gvar", "func", "alias"}
isaConstant(V) ==
  V.kind \in {"cint", "cfp", "undef", "null", "cexpr", "cvec", "gvar", "func", "alias"}
isaAllocaInst(V) == V.kind = "inst" /\ V.op = "Alloca"
isaIntToPtrInst(V) == V.kind = "inst" /\ V.op = "IntToPtr"
isaBitCastInst(V) == V.kind = "inst" /\ V.op = "BitCast"
isaIntrinsicInst(V) == V.kind = "inst" /\ V.op = "Call" /\ V.intr

isIntrinsicFunc(V) == V.kind = "func" /\ V.intr

isInherentPtr_IntrinsicFuncToo(V) ==
  isaAllocaInst(V) \/ isaGlobalValue(V) \/ isaIntrinsicInst(V)

isInherentPtr(V) ==
  \/ isaAllocaInst(V)
  \/ isaGlobalValue(V) /\ ~isIntrinsicFunc(V)
  \/ isaIntrinsicInst(V)

isNormalizedPtr_AnyInstruction(V) ==
  /\ isValidPointerType(V.ty)
  /\ isaInstruction(V) \/ isInherentPtr(V)

isNormalizedPtr(V) ==
  /\ isValidPointerType(V.ty)
  /\ isaIntToPtrInst(V) \/ isaBitCastInst(V) \/ isInherentPtr(V)

isValidScalarOperand(V) ==
  \/ isaInstruction(V) \/ isaArgument(V) \/ isaBasicBlock(V)
  \/ /\ isValidScalarType(V.ty)
     /\ isaConstantInt(V) \/ isaConstantFP(V) \/ isaUndefValue(V)

isValidVectorOperand_AnyConstant(V) ==
  \/ isaInstruction(V) \/ isaArgument(V)
  \/ isValidVectorType(V.ty) /\ isaConstant(V)

isValidVectorOperand(V) ==
  \/ isaInstruction(V) \/ isaArgument(V)
  \/ isValidVectorType(V.ty) /\ isaUndefValue(V)

(***************************************************************************)
(* Instructions.  ops is the operand list (for a call the callee is the    *)
(* last operand; for a store the value is operand 0 and the pointer        *)
(* operand 1).  cases holds a switch's case values.  md is the list of     *)
(* metadata kinds attached to the instruction.  byName is the one thing    *)
(* about the LLVM library under the pass that the sources leave open: how  *)
(* IntrinsicInst::classof answers for a direct call of a function that is  *)
(* named llvm.* (isIntrinsic()) but has no intrinsic ID.  TRUE: classof     *)
(* asks the callee isIntrinsic(), and the call is an IntrinsicInst; FALSE: *)
(* classof asks getIntrinsicID() != 0, and it is not.  The field is read   *)
(* for no other instruction.                                               *)
(***************************************************************************)
Inst(op, ty, ops) ==
  [op |-> op, ty |-> ty, ops |-> ops, nuw |-> FALSE, nsw |-> FALSE, exact |-> FALSE,
   atomic |-> FALSE, volatile |-> FALSE, align |-> 0, allocTy |-> VoidTy,
   attrs |-> FALSE, cc |-> "C", cases |-> <<>>, md |-> <<>>, byName |-> FALSE]

NoError == "none"   \* the NULL returned for an allowed instruction

getCalledValue(I) == I.ops[Len(I.ops)]
isInlineAsm(I) == isaInlineAsm(getCalledValue(I))
\* A direct call of a function that isIntrinsic() but has no intrinsic ID.
CalleeWithoutID(I) ==
  /\ I.op = "Call"
  /\ getCalledValue(I).kind = "func"
  /\ getCalledValue(I).intr
  /\ getCalledValue(I).iid = "not_intrinsic"

\* isa<IntrinsicInst>(Inst), IntrinsicInst::classof: a direct call of a
\* function with an intrinsic ID is an IntrinsicInst, a call of anything
\* that is not a function named llvm.* is none.  IntrinsicInst.h is not
\* among the sources; for a callee named llvm.* without an intrinsic ID the
\* answer is that of the library, carried by the instruction (byName).
IsIntrinsicInst(I) ==
  /\ I.op = "Call"
  /\ getCalledValue(I).kind = "func"
  /\ \/ getCalledValue(I).iid # "not_intrinsic"
     \/ CalleeWithoutID(I) /\ I.byName
getIntrinsicID(I) == getCalledValue(I).iid
IsMemIntrinsic(I) == IsIntrinsicInst(I) /\ getIntrinsicID(I) \in {"memcpy", "memmove", "memset"}
\* The instruction seen as a Value (an operand of another instruction, or
\* the argument of isNormalizedPtr in the result-type check).
AsValue(I) ==
  [Val("inst", I.ty) EXCEPT !.op = I.op, !.intr = IsIntrinsicInst(I)]

ForbiddenOpcodes_NoFence ==
  {"GetElementPtr", "VAArg", "Invoke", "LandingPad", "Resume", "IndirectBr",
   "ShuffleVector", "ExtractValue", "InsertValue", "AtomicCmpXchg", "AtomicRMW"}

ForbiddenOpcodes ==
  {"GetElementPtr", "VAArg", "Invoke", "LandingPad", "Resume", "IndirectBr",
   "ShuffleVector", "ExtractValue", "InsertValue", "AtomicCmpXchg", "AtomicRMW",
   "Fence"}

PlainOpcodes ==
  {"Ret", "Br", "Unreachable", "FAdd", "FSub", "FMul", "FDiv", "FRem",
   "And", "Or", "Xor", "Trunc", "ZExt", "SExt", "FPTrunc", "FPExt",
   "FPToUI", "FPToSI", "UIToFP", "SIToFP", "FCmp", "PHI", "Select"}

ArithmeticOpcodes ==
  {"ICmp", "Add", "Sub", "Mul", "UDiv", "SDiv", "URem", "SRem", "Shl", "LShr", "AShr"}

\* dyn_cast<OverflowingBinaryOperator> / dyn_cast<PossiblyExactOperator>
OverflowingOpcodes == {"Add", "Sub", "Mul", "Shl"}
PossiblyExactOpcodes == {"UDiv", "SDiv", "LShr", "AShr"}

verifyArithmeticType_ScalarOnly(Ty) ==
  IF isIntegerTyW(Ty, 1) THEN "arithmetic on i1"
  ELSE NoError


verifyArithmeticType(Ty) ==
  IF isIntegerTyW(Ty, 1) THEN "arithmetic on i1"
  ELSE IF isVectorTy(Ty) /\ isIntegerTyW(Ty.elt, 1) THEN "arithmetic on vector of i1"
  ELSE NoError

\* Declared in the pass's header (not in the sources): the index, read as
\* an unsigned number, must be below the vector length.
verifyVectorIndexSafe(Idx, NumElements) ==
  IF Idx < 0 \/ Idx >= NumElements
  THEN "out of range vector insert/extract index" ELSE NoError

verifyAllocaAllocatedType(Ty) ==
  IF isIntegerTyW(Ty, 8) THEN NoError ELSE "non-i8 alloca"

verifyAllocaSizeType(Ty) ==
  IF isIntegerTyW(Ty, 32) THEN NoError ELSE "alloca array size is not i32"

verifyCallingConv(CC) ==
  IF CC = "C" THEN NoError ELSE "bad calling conv"

verifySwitchConditionType(Ty) ==
  IF isIntegerTy(Ty) /\ Ty.w >= 8 THEN NoError ELSE "bad switch condition"

(***************************************************************************)
(* NaCl atomic intrinsics (llvm/IR/NaClAtomicIntrinsics.h, not in the      *)
(* sources): the enum bounds and the parameter kinds of each intrinsic.    *)
(***************************************************************************)
MemoryOrderInvalid == 0
MemoryOrderSequentiallyConsistent == 6
MemoryOrderNum == 7
AtomicInvalid == 0
AtomicNum == 7

AtomicIntrinsicIDs ==
  {"nacl_atomic_load", "nacl_atomic_store", "nacl_atomic_rmw",
   "nacl_atomic_cmpxchg", "nacl_atomic_fence", "nacl_atomic_fence_all"}

\* AtomicIntrinsics->find(ID, i32)->ParamType
AtomicParamType(ID) ==
  CASE ID = "nacl_atomic_load" -> <<"Ptr", "Mem">>
    [] ID = "nacl_atomic_store" -> <<"Int", "Ptr", "Mem">>
    [] ID = "nacl_atomic_rmw" -> <<"RMW", "Ptr", "Int", "Mem">>
    [] ID = "nacl_atomic_cmpxchg" -> <<"Ptr", "Int", "Int", "Mem", "Mem">>
    [] ID = "nacl_atomic_fence" -> <<"Mem">>
    [] OTHER -> <<>>

\* Constant::getUniqueInteger() is defined for a ConstantInt only; on any
\* other Constant (undef, ...) the behaviour is undefined.
UBOutcomes == {"crash", "none", "invalid memory order", "invalid atomicRMW operation",
               "invalid atomic lock-free byte size"}

\* One parameter of the loops of hasAllowedAtomicRMWOperation /
\* hasAllowedAtomicMemoryOrder: "ok", "bad" (return false) or "ub".
RMWOperationParam(V) ==
  IF ~isaConstant(V) THEN "bad"
  ELSE IF ~isaConstantInt(V) THEN "ub"
  ELSE IF V.val <= AtomicInvalid \/ V.val >= AtomicNum THEN "bad"
  ELSE "ok"

MemoryOrderParam(V) ==
  IF ~isaConstant(V) THEN "bad"
  ELSE IF ~isaConstantInt(V) THEN "ub"
  ELSE IF V.val <= MemoryOrderInvalid \/ V.val >= MemoryOrderNum THEN "bad"
  ELSE IF V.val # MemoryOrderSequentiallyConsistent THEN "bad"
  ELSE "ok"

\* The verdict of the first parameter of kind K that is not "ok".
FirstNotOk(PT, K, Verdict(_), I) ==
  LET Pos == {P \in 1..Len(PT) : PT[P] = K /\ Verdict(I.ops[P]) # "ok"}
  IN IF Pos = {} THEN "ok"
     ELSE Verdict(I.ops[CHOOSE P \in Pos : \A Q \in Pos : P <= Q])

hasAllowedAtomicRMWOperation(PT, I) == FirstNotOk(PT, "RMW", RMWOperationParam, I)
hasAllowedAtomicMemoryOrder(PT, I) == FirstNotOk(PT, "Mem", MemoryOrderParam, I)

hasAllowedLockFreeByteSize(I) ==
  IF ~isIntegerTy(I.ty) THEN "bad"
  ELSE IF ~isaConstant(I.ops[1]) THEN "bad"
  ELSE IF ~isaConstantInt(I.ops[1]) THEN "ub"
  ELSE IF I.ops[1].val \in {1, 2, 4, 8} THEN "ok" ELSE "bad"

(***************************************************************************)
(* A uint64_t is kept as [hi, lo]: hi is its top three bits, lo its low    *)
(* 61 bits, so that the value is hi * 2^61 + lo.  UINT64_MAX / CHAR_BIT is *)
(* 2^61 - 1, i.e. [hi |-> 0, lo |-> 2^61 - 1]; multiplying by CHAR_BIT     *)
(* shifts hi out of the 64 bits.  The model only builds values whose lo    *)
(* is small enough for lo * CHAR_BIT to be computed exactly.               *)
(***************************************************************************)
CHAR_BIT == 8
U64(n) == [hi |-> 0, lo |-> n]
ExceedsMaxOverCharBit(A) == A.hi > 0
TimesCharBit(A) == A.lo * CHAR_BIT
IsU64(A, n) == A.hi = 0 /\ A.lo = n

\* DataLayout::getTypeSizeInBits of a vector's element type
getTypeSizeInBits(Ty) ==
  CASE Ty.k = "int" -> Ty.w
    [] Ty.k = "float" -> 32
    [] Ty.k = "double" -> 64
    [] OTHER -> 32

isAllowedAlignment_NoOverflowGuard(Alignment, Ty) ==
  IF isVectorTy(Ty) THEN
    /\ ~isIntegerTyW(Ty.elt, 1)
    /\ TimesCharBit(Alignment) = getTypeSizeInBits(Ty.elt)
  ELSE
    \/ IsU64(Alignment, 1)
    \/ Ty.k = "double" /\ IsU64(Alignment, 8)
    \/ Ty.k = "float" /\ IsU64(Alignment, 4)


isAllowedAlignment_Natural(Alignment, Ty) ==
  IF ExceedsMaxOverCharBit(Alignment) THEN FALSE
  ELSE IF isVectorTy(Ty) THEN
    /\ ~isIntegerTyW(Ty.elt, 1)
    /\ TimesCharBit(Alignment) = getTypeSizeInBits(Ty.elt)
  ELSE
    \/ IsU64(Alignment, 1)
    \/ Ty.k = "double" /\ IsU64(Alignment, 8)
    \/ Ty.k \in {"float", "int"} /\ IsU64(Alignment, 4)

isAllowedAlignment(Alignment, Ty) ==
  IF ExceedsMaxOverCharBit(Alignment) THEN FALSE
  ELSE IF isVectorTy(Ty) THEN
    /\ ~isIntegerTyW(Ty.elt, 1)
    /\ TimesCharBit(Alignment) = getTypeSizeInBits(Ty.elt)
  ELSE
    \/ IsU64(Alignment, 1)
    \/ Ty.k = "double" /\ IsU64(Alignment, 8)
    \/ Ty.k = "float" /\ IsU64(Alignment, 4)

\* No call of isAllowedAlignment is under way.
NoAlignmentCall == [Alignment |-> U64(0), Ty |-> VoidTy, Allowed |-> "none"]

(***************************************************************************)
(* checkInstruction: the error string of the first failing check, or       *)
(* NoError.  ub is the outcome taken where the code's behaviour is         *)
(* undefined (getUniqueInteger of a Constant that is no ConstantInt).      *)
(***************************************************************************)
\* The generic operand loop and the arithmetic attributes (lines 501-525).
checkOperandsAndFlags_NswFirst(I, PtrOperandIndex) ==
  IF \E OpNum \in 1..Len(I.ops) :
       /\ OpNum # PtrOperandIndex
       /\ ~(isValidScalarOperand(I.ops[OpNum]) \/ isValidVectorOperand(I.ops[OpNum]))
  THEN "bad operand"
  ELSE IF I.op \in OverflowingOpcodes /\ I.nsw THEN "has \"nsw\" attribute"
  ELSE IF I.op \in OverflowingOpcodes /\ I.nuw THEN "has \"nuw\" attribute"
  ELSE IF I.op \in PossiblyExactOpcodes /\ I.exact THEN "has \"exact\" attribute"
  ELSE NoError

checkOperandsAndFlags(I, PtrOperandIndex) ==
  IF \E OpNum \in 1..Len(I.ops) :
       /\ OpNum # PtrOperandIndex
       /\ ~(isValidScalarOperand(I.ops[OpNum]) \/ isValidVectorOperand(I.ops[OpNum]))
  THEN "bad operand"
  ELSE IF I.op \in OverflowingOpcodes /\ I.nuw THEN "has \"nuw\" attribute"
  ELSE IF I.op \in OverflowingOpcodes /\ I.nsw THEN "has \"nsw\" attribute"
  ELSE IF I.op \in PossiblyExactOpcodes /\ I.exact THEN "has \"exact\" attribute"
  ELSE NoError

NoPtrOperand == 0   \* PtrOperandIndex = -1: no operand is exempt

checkLoadStore_PointerFirst(I, PtrOperandIndex, AccessTy, what) ==
  IF ~isNormalizedPtr(I.ops[PtrOperandIndex]) THEN "bad pointer"
  ELSE IF I.atomic THEN "atomic " \o what
  ELSE IF I.volatile THEN "volatile " \o what
  ELSE IF ~isAllowedAlignment(U64(I.align), AccessTy) THEN "bad alignment"
  ELSE checkOperandsAndFlags(I, PtrOperandIndex)


checkLoadStore(I, PtrOperandIndex, AccessTy, what) ==
  IF I.atomic THEN "atomic " \o what
  ELSE IF I.volatile THEN "volatile " \o what
  ELSE IF ~isNormalizedPtr(I.ops[PtrOperandIndex]) THEN "bad pointer"
  ELSE IF ~isAllowedAlignment(U64(I.align), AccessTy) THEN "bad alignment"
  ELSE checkOperandsAndFlags(I, PtrOperandIndex)

checkVectorElement(I) ==
  LET Vec == I.ops[1]
      Idx == I.ops[IF I.op = "InsertElement" THEN 3 ELSE 2]
  IN IF ~isaConstantInt(Idx) THEN "non-constant vector insert/extract index"
     ELSE IF verifyVectorIndexSafe(Idx.val, Vec.ty.n) # NoError
          THEN verifyVectorIndexSafe(Idx.val, Vec.ty.n)
     ELSE checkOperandsAndFlags(I, NoPtrOperand)

checkIntrinsicCall(I, ub) ==
  IF \E ArgNum \in 1..(Len(I.ops) - 1) :
       ~(\/ isValidScalarOperand(I.ops[ArgNum])
         \/ isValidVectorOperand(I.ops[ArgNum])
         \/ isNormalizedPtr(I.ops[ArgNum])
         \/ isaMDNode(I.ops[ArgNum]))
  THEN "bad intrinsic operand"
  ELSE IF /\ IsMemIntrinsic(I)
          /\ ~(isaConstantInt(I.ops[4]) /\ I.ops[4].val = 1)
  THEN "bad alignment"
  ELSE IF getIntrinsicID(I) \in AtomicIntrinsicIDs THEN
    LET PT == AtomicParamType(getIntrinsicID(I))
        mo == hasAllowedAtomicMemoryOrder(PT, I)
        rmw == hasAllowedAtomicRMWOperation(PT, I)
    IN IF mo = "ub" THEN ub
       ELSE IF mo = "bad" THEN "invalid memory order"
       ELSE IF rmw = "ub" THEN ub
       ELSE IF rmw = "bad" THEN "invalid atomicRMW operation"
       ELSE NoError
  ELSE IF getIntrinsicID(I) = "nacl_atomic_is_lock_free" THEN
    LET lf == hasAllowedLockFreeByteSize(I)
    IN IF lf = "ub" THEN ub
       ELSE IF lf = "bad" THEN "invalid atomic lock-free byte size"
       ELSE NoError
  ELSE NoError

checkCall_AttributesFirst(I, ub) ==
  IF I.attrs THEN "bad call attributes"
  ELSE IF isInlineAsm(I) THEN "inline assembly"
  ELSE IF verifyCallingConv(I.cc) # NoError THEN verifyCallingConv(I.cc)
  ELSE IF IsIntrinsicInst(I) THEN checkIntrinsicCall(I, ub)
  ELSE IF ~isNormalizedPtr(I.ops[Len(I.ops)]) THEN "bad function callee operand"
  ELSE checkOperandsAndFlags(I, Len(I.ops))


checkCall(I, ub) ==
  IF isInlineAsm(I) THEN "inline assembly"
  ELSE IF I.attrs THEN "bad call attributes"
  ELSE IF verifyCallingConv(I.cc) # NoError THEN verifyCallingConv(I.cc)
  ELSE IF IsIntrinsicInst(I) THEN checkIntrinsicCall(I, ub)
  ELSE IF ~isNormalizedPtr(I.ops[Len(I.ops)]) THEN "bad function callee operand"
  ELSE checkOperandsAndFlags(I, Len(I.ops))

checkSwitch(I) ==
  IF ~isValidScalarOperand(I.ops[1]) THEN "bad switch condition"
  ELSE IF verifySwitchConditionType(I.ops[1].ty) # NoError
       THEN verifySwitchConditionType(I.ops[1].ty)
  ELSE IF \E c \in 1..Len(I.cases) : ~isValidScalarOperand(I.cases[c])
       THEN "bad switch case"
  ELSE NoError

checkInstruction_PtrToIntWidthFirst(I, ub) ==
  CASE I.op \in ForbiddenOpcodes -> "bad instruction opcode"
    [] I.op \in PlainOpcodes -> checkOperandsAndFlags(I, NoPtrOperand)
    [] I.op \in ArithmeticOpcodes ->
         IF verifyArithmeticType(I.ops[1].ty) # NoError
         THEN verifyArithmeticType(I.ops[1].ty)
         ELSE checkOperandsAndFlags(I, NoPtrOperand)
    [] I.op \in {"ExtractElement", "InsertElement"} -> checkVectorElement(I)
    [] I.op = "Load" -> checkLoadStore(I, 1, I.ty, "load")
    [] I.op = "Store" -> checkLoadStore(I, 2, I.ops[1].ty, "store")
    [] I.op = "BitCast" ->
         IF isPointerTy(I.ty)
         THEN IF ~isInherentPtr(I.ops[1]) THEN "operand not InherentPtr"
              ELSE checkOperandsAndFlags(I, 1)
         ELSE checkOperandsAndFlags(I, NoPtrOperand)
    [] I.op = "IntToPtr" ->
         IF ~isIntegerTyW(I.ops[1].ty, 32) THEN "non-i32 inttoptr"
         ELSE checkOperandsAndFlags(I, NoPtrOperand)
    [] I.op = "PtrToInt" ->
         IF ~isIntegerTyW(I.ty, 32) THEN "non-i32 ptrtoint"
         ELSE IF ~isInherentPtr(I.ops[1]) THEN "operand not InherentPtr"
         ELSE checkOperandsAndFlags(I, 1)
    [] I.op = "Alloca" ->
         IF verifyAllocaAllocatedType(I.allocTy) # NoError
         THEN verifyAllocaAllocatedType(I.allocTy)
         ELSE IF verifyAllocaSizeType(I.ops[1].ty) # NoError
         THEN verifyAllocaSizeType(I.ops[1].ty)
         ELSE checkOperandsAndFlags(I, NoPtrOperand)
    [] I.op = "Call" -> checkCall(I, ub)
    [] I.op = "Switch" -> checkSwitch(I)
    [] OTHER -> "unknown instruction opcode"


checkInstruction(I, ub) ==
  CASE I.op \in ForbiddenOpcodes -> "bad instruction opcode"
    [] I.op \in PlainOpcodes -> checkOperandsAndFlags(I, NoPtrOperand)
    [] I.op \in ArithmeticOpcodes ->
         IF verifyArithmeticType(I.ops[1].ty) # NoError
         THEN verifyArithmeticType(I.ops[1].ty)
         ELSE checkOperandsAndFlags(I, NoPtrOperand)
    [] I.op \in {"ExtractElement", "InsertElement"} -> checkVectorElement(I)
    [] I.op = "Load" -> checkLoadStore(I, 1, I.ty, "load")
    [] I.op = "Store" -> checkLoadStore(I, 2, I.ops[1].ty, "store")
    [] I.op = "BitCast" ->
         IF isPointerTy(I.ty)
         THEN IF ~isInherentPtr(I.ops[1]) THEN "operand not InherentPtr"
              ELSE checkOperandsAndFlags(I, 1)
         ELSE checkOperandsAndFlags(I, NoPtrOperand)
    [] I.op = "IntToPtr" ->
         IF ~isIntegerTyW(I.ops[1].ty, 32) THEN "non-i32 inttoptr"
         ELSE checkOperandsAndFlags(I, NoPtrOperand)
    [] I.op = "PtrToInt" ->
         IF ~isInherentPtr(I.ops[1]) THEN "operand not InherentPtr"
         ELSE IF ~isIntegerTyW(I.ty, 32) THEN "non-i32 ptrtoint"
         ELSE checkOperandsAndFlags(I, 1)
    [] I.op = "Alloca" ->
         IF verifyAllocaAllocatedType(I.allocTy) # NoError
         THEN verifyAllocaAllocatedType(I.allocTy)
         ELSE IF verifyAllocaSizeType(I.ops[1].ty) # NoError
         THEN verifyAllocaSizeType(I.ops[1].ty)
         ELSE checkOperandsAndFlags(I, NoPtrOperand)
    [] I.op = "Call" -> checkCall(I, ub)
    [] I.op = "Switch" -> checkSwitch(I)
    [] OTHER -> "unknown instruction opcode"

(***************************************************************************)
(* The Reporter.  A diagnostic keeps the pieces the code streams into      *)
(* addError(): the subject ("Function ", "Variable ", ...), the name, the  *)
(* words of the string literal after the name, the detail streamed after   *)
(* it (the error string, the metadata kind, ...), the type printed for a   *)
(* bad result type, and, where the instruction is printed, the position    *)
(* of that instruction.                                                    *)
(***************************************************************************)
NoTy == [k |-> "none"]
NoAt == <<0, 0>>
Diag(subject, name, words, detail, ty, at) ==
  [subject |-> subject, name |-> name, words |-> words, detail |-> detail,
   ty |-> ty, at |-> at]

getMDNodeString(Kind) == "!" \o Kind

IsWhitelistedMetadata_Always(MDKind, allow) == MDKind = "dbg"

IsWhitelistedMetadata(MDKind, allow) == MDKind = "dbg" /\ allow

hasBadResultType_PointersRejected(I) ==
  ~(\/ isValidScalarType(I.ty)
    \/ isValidVectorType(I.ty)
    \/ isaAllocaInst(AsValue(I)))


\* The result-type check of runOnFunction (lines 545-548).
hasBadResultType(I) ==
  ~(\/ isValidScalarType(I.ty)
    \/ isValidVectorType(I.ty)
    \/ isNormalizedPtr(AsValue(I))
    \/ isaAllocaInst(AsValue(I)))

\* The error of one instruction: checkInstruction's, else "bad result type".
InstructionError(I, ub) ==
  IF checkInstruction(I, ub) # NoError THEN checkInstruction(I, ub)
  ELSE IF hasBadResultType(I) THEN "bad result type"
  ELSE NoError

InstructionDiag(fname, I, at, ub) ==
  LET Error == InstructionError(I, ub)
      BadResult == checkInstruction(I, ub) = NoError /\ hasBadResultType(I)
  IN IF Error = NoError THEN <<>>
     ELSE <<Diag("Function ", fname, <<"disallowed:">>, Error,
                 IF BadResult THEN I.ty ELSE NoTy, at)>>

RECURSIVE MetadataDiags(_, _, _)
MetadataDiags(fname, MDForInst, allow) ==
  IF MDForInst = <<>> THEN <<>>
  ELSE (IF IsWhitelistedMetadata(Head(MDForInst), allow) THEN <<>>
        ELSE <<Diag("Function ", fname, <<"has", "disallowed", "instruction", "metadata:">>,
                    getMDNodeString(Head(MDForInst)), NoTy, NoAt)>>)
       \o MetadataDiags(fname, Tail(MDForInst), allow)

\* Everything one iteration of the instruction loop adds to the Reporter.
VisitDiags_MetadataOnlyIfAccepted(fname, I, at, ub, allow) ==
  IF InstructionDiag(fname, I, at, ub) # <<>> THEN InstructionDiag(fname, I, at, ub)
  ELSE MetadataDiags(fname, I.md, allow)

VisitDiags_MetadataFirst(fname, I, at, ub, allow) ==
  MetadataDiags(fname, I.md, allow) \o InstructionDiag(fname, I, at, ub)


VisitDiags(fname, I, at, ub, allow) ==
  InstructionDiag(fname, I, at, ub) \o MetadataDiags(fname, I.md, allow)

\* The undefined behaviour is reached on I exactly when its outcome is taken.
ReachesUB(I) == checkInstruction(I, "crash") = "crash"
UBChoices(I) == IF ReachesUB(I) THEN UBOutcomes ELSE {NoError}

(***************************************************************************)
(* Bounded inputs: the instructions handed to the function pass.           *)
(***************************************************************************)
I1 == IntTy(1)
I8 == IntTy(8)
I32 == IntTy(32)
I64 == IntTy(64)
I128 == IntTy(128)
V4I32 == VecTy(I32, 4)
V4I1 == VecTy(I1, 4)
V4F32 == VecTy(FloatTy, 4)
V2I64 == VecTy(I64, 2)
AggTy == StructTy(FALSE, FALSE, <<I32, I32>>)
P(t) == PtrTy(t, 0)
VoidFnTy == FnTy(VoidTy, <<>>, FALSE)
VarArgFnTy == FnTy(I32, <<I32>>, TRUE)

Arg(ty) == Val("arg", ty)
BB == Val("bb", LabelTy)

\* The constant of type ty that is not undef: ConstantInt, ConstantFP,
\* constant vector, null pointer, or aggregate constant.
PlainConstant(ty) ==
  CASE ty.k = "int" -> ConstInt(ty, 1)
    [] ty.k \in {"float", "double"} -> Val("cfp", ty)
    [] ty.k = "ptr" -> Val("null", ty)
    [] OTHER -> Val("cvec", ty)

\* The ways a value of type ty can be given as an operand.
Forms(ty) ==
  {Arg(ty), InstVal("Select", ty), Val("undef", ty), Val("cexpr", ty), PlainConstant(ty)}
  \cup (IF ty.k = "ptr" THEN {Val("gvar", ty)} ELSE {})

\* The ways a pointer to t can be given.
PointerForms(t) ==
  {InstVal("Alloca", P(t)), Val("gvar", P(t)), InstVal("IntToPtr", P(t)),
   BitCastVal(P(t), TRUE), BitCastVal(P(t), FALSE), IntrinsicCallVal(P(t)),
   Val("cexpr", P(t)), Val("null", P(t)), Val("undef", P(t)), Arg(P(t)),
   InstVal("PHI", P(t)), InstVal("Select", P(t)), InstVal("Load", P(t)),
   Val("gvar", PtrTy(t, 1)), InstVal("IntToPtr", PtrTy(t, 1))}

\* The ways a function address can be given (the callee of a call, the
\* operand of a cast).
FunctionForms(fty) ==
  {Val("func", P(fty)), IntrinsicFuncVal(P(fty), "not_intrinsic"),
   IntrinsicFuncVal(P(fty), "trap")}

UnknownOpcodes == {"UserOp1", "UserOp2"}

OpcodesOutsidePNaCl ==
  {"GetElementPtr", "VAArg", "Invoke", "LandingPad", "Resume", "IndirectBr",
   "ShuffleVector", "ExtractValue", "InsertValue", "AtomicCmpXchg", "AtomicRMW",
   "Fence"}

RejectedOpcodeInsts ==
  {[Inst(op, ty, <<v>>) EXCEPT !.volatile = b, !.attrs = b] :
     op \in OpcodesOutsidePNaCl \cup UnknownOpcodes,
     ty \in {VoidTy, I32, P(I32), AggTy},
     v \in {Arg(I32), Val("cexpr", I32), Val("null", P(I32)), Arg(AggTy)},
     b \in BOOLEAN}

TerminatorInsts ==
  {Inst("Unreachable", VoidTy, <<>>), Inst("Ret", VoidTy, <<>>),
   Inst("Br", VoidTy, <<BB>>)}
  \cup {Inst("Ret", VoidTy, <<v>>) :
          v \in Forms(I32) \cup Forms(FloatTy) \cup Forms(V4I32) \cup Forms(P(I32))
                \cup Forms(AggTy)}
  \cup {Inst("Br", VoidTy, <<c, BB, BB>>) : c \in Forms(I1)}

BinaryInsts(ops, tys) ==
  {Inst(op, ty, <<a, Arg(ty)>>) : op \in ops, ty \in tys,
                                  a \in UNION {Forms(t) : t \in tys}}

CastInsts(ops, srcs, dsts) ==
  {Inst(op, d, <<a>>) : op \in ops, d \in dsts, a \in UNION {Forms(t) : t \in srcs}}

PlainInsts ==
  TerminatorInsts
  \cup {i \in BinaryInsts({"FAdd", "FSub", "FMul", "FDiv", "FRem"},
                          {FloatTy, DoubleTy, V4F32}) : i.ops[1].ty = i.ty}
  \cup {i \in BinaryInsts({"And", "Or", "Xor"}, {I1, I32, I128, V4I32, V4I1}) :
          i.ops[1].ty = i.ty}
  \cup CastInsts({"Trunc"}, {I32, I128}, {I1, I8})
  \cup CastInsts({"ZExt", "SExt"}, {I1, I8}, {I32, I128})
  \cup CastInsts({"FPTrunc"}, {DoubleTy}, {FloatTy})
  \cup CastInsts({"FPExt"}, {FloatTy}, {DoubleTy})
  \cup CastInsts({"FPToUI", "FPToSI"}, {FloatTy}, {I32, I128})
  \cup CastInsts({"UIToFP", "SIToFP"}, {I32}, {FloatTy})
  \cup {Inst("FCmp", I1, <<a, Arg(FloatTy)>>) : a \in Forms(FloatTy)}
  \cup {Inst("FCmp", V4I1, <<a, Arg(V4F32)>>) : a \in Forms(V4F32)}
  \cup {Inst("PHI", ty, <<a, BB>>) :
          ty \in {I32, P(I32), AggTy, V4I32}, a \in Forms(I32) \cup Forms(P(I32))}
  \cup {Inst("Select", ty, <<Arg(I1), a, Arg(ty)>>) :
          ty \in {I32, P(I32), AggTy, V4I32}, a \in Forms(I32) \cup Forms(P(I32))}

\* nuw/nsw exist on add, sub, mul, shl only; exact on udiv, sdiv, lshr, ashr.
ArithmeticInsts ==
  {[Inst(op, IF op = "ICmp" THEN (IF ty.k = "vec" THEN V4I1 ELSE I1) ELSE ty,
         <<a, Arg(ty)>>)
      EXCEPT !.nuw = fl[1], !.nsw = fl[2], !.exact = fl[3]] :
     op \in ArithmeticOpcodes,
     ty \in {I1, I8, I32, I128, V4I32, V4I1},
     a \in Forms(I1) \cup Forms(I32) \cup Forms(V4I32) \cup Forms(V4I1),
     fl \in BOOLEAN \X BOOLEAN \X BOOLEAN}

ArithmeticInstsWellFormed ==
  {i \in ArithmeticInsts :
     /\ (i.nuw \/ i.nsw) => i.op \in OverflowingOpcodes
     /\ i.exact => i.op \in PossiblyExactOpcodes
     /\ i.ops[1].ty = i.ops[2].ty \/ i.ops[1].ty = I32}

AccessTypes == {I1, I32, I64, FloatTy, DoubleTy, V4I32, V4I1}
Alignments == {0, 1, 2, 4, 8, 16}

LoadInsts ==
  {[Inst("Load", ty, <<p>>) EXCEPT !.atomic = at, !.volatile = vo, !.align = al] :
     ty \in AccessTypes, p \in UNION {PointerForms(t) : t \in AccessTypes},
     at \in BOOLEAN, vo \in BOOLEAN, al \in Alignments}

LoadInstsWellFormed == {i \in LoadInsts : i.ops[1].ty.to = i.ty}

StoreInsts ==
  {[Inst("Store", VoidTy, <<v, p>>) EXCEPT !.atomic = at, !.volatile = vo, !.align = al] :
     v \in {Arg(t) : t \in AccessTypes} \cup {Val("cexpr", I32)},
     p \in UNION {PointerForms(t) : t \in AccessTypes},
     at \in BOOLEAN, vo \in BOOLEAN, al \in Alignments}

StoreInstsWellFormed == {i \in StoreInsts : i.ops[2].ty.to = i.ops[1].ty}

I32FnTy == FnTy(I32, <<I32>>, FALSE)

CastPtrInsts ==
  {Inst("BitCast", d, <<p>>) :
     d \in {P(I32), P(I1), P(AggTy), PtrTy(I32, 1)},
     p \in PointerForms(I8) \cup FunctionForms(VoidFnTy)}
  \cup {Inst("BitCast", d, <<a>>) :
          d \in {I32, FloatTy, AggTy}, a \in Forms(I32) \cup Forms(FloatTy)}
  \cup {Inst("IntToPtr", d, <<a>>) :
          d \in {P(I32), P(I1), P(AggTy)},
          a \in Forms(I32) \cup Forms(I64) \cup Forms(I8)}
  \cup {Inst("PtrToInt", d, <<p>>) :
          d \in {I32, I64, I8},
          p \in PointerForms(I8) \cup FunctionForms(VoidFnTy)}

AllocaInsts ==
  {[Inst("Alloca", P(t), <<n>>) EXCEPT !.allocTy = t] :
     t \in {I8, I32, AggTy, ArrayTy(I8, 4)}, n \in Forms(I32) \cup Forms(I64)}

VectorIndexes ==
  {ConstInt(I32, n) : n \in {-1, 0, 3, 4}} \cup {Arg(I32), Val("undef", I32)}

VectorElementInsts ==
  {Inst("ExtractElement", I32, <<v, i>>) : v \in Forms(V4I32), i \in VectorIndexes}
  \cup {Inst("InsertElement", V4I32, <<v, e, i>>) :
          v \in Forms(V4I32), e \in {Arg(I32), Val("cexpr", I32)}, i \in VectorIndexes}

CalleeForms(fty) ==
  {Val("func", P(fty)), InstVal("IntToPtr", P(fty)), BitCastVal(P(fty), TRUE),
   BitCastVal(P(fty), FALSE), Arg(P(fty)), InstVal("Load", P(fty)),
   Val("cexpr", P(fty)), Val("null", P(fty)), Val("undef", P(fty)),
   Val("asm", P(fty)), Val("func", PtrTy(fty, 1))}

CallInsts ==
  {[Inst("Call", VoidTy, <<c>>) EXCEPT !.attrs = at, !.cc = cc] :
     c \in CalleeForms(VoidFnTy), at \in BOOLEAN, cc \in {"C", "fastcc"}}
  \cup {[Inst("Call", I32, <<a, c>>) EXCEPT !.attrs = at, !.cc = cc] :
          a \in Forms(I32), c \in CalleeForms(I32FnTy) \cup CalleeForms(VarArgFnTy),
          at \in BOOLEAN, cc \in {"C", "fastcc"}}

\* A direct call of the intrinsic iid with the given arguments.
IntrinsicCall(iid, ty, args) ==
  Inst("Call", ty, args \o <<IntrinsicFuncVal(P(VoidFnTy), iid)>>)

MemIntrinsicCalls ==
  {[IntrinsicCall(iid, VoidTy, <<d, Arg(P(I8)), Arg(I32), al, ConstInt(I1, 0)>>)
      EXCEPT !.attrs = at, !.cc = cc] :
     iid \in {"memcpy", "memmove", "memset"},
     d \in {InstVal("IntToPtr", P(I8)), Arg(P(I8)), Val("cexpr", P(I8))},
     al \in {ConstInt(I32, n) : n \in {0, 1, 4}}
            \cup {Arg(I32), Val("undef", I32), Val("cexpr", I32)},
     at \in BOOLEAN, cc \in {"C", "fastcc"}}

MemoryOrders ==
  {ConstInt(I32, n) : n \in {0, 3, 6, 7}} \cup {Arg(I32), Val("undef", I32)}
RMWOperations ==
  {ConstInt(I32, n) : n \in {0, 1, 6, 7}} \cup {Arg(I32), Val("undef", I32)}
NormPtr == InstVal("IntToPtr", P(I32))

AtomicIntrinsicCalls ==
  {IntrinsicCall("nacl_atomic_load", I32, <<NormPtr, m>>) : m \in MemoryOrders}
  \cup {IntrinsicCall("nacl_atomic_store", VoidTy, <<Arg(I32), NormPtr, m>>) :
          m \in MemoryOrders}
  \cup {IntrinsicCall("nacl_atomic_rmw", I32, <<o, NormPtr, Arg(I32), m>>) :
          o \in RMWOperations, m \in MemoryOrders}
  \cup {IntrinsicCall("nacl_atomic_cmpxchg", I32, <<NormPtr, Arg(I32), Arg(I32), m, n>>) :
          m \in MemoryOrders, n \in MemoryOrders}
  \cup {IntrinsicCall("nacl_atomic_fence", VoidTy, <<m>>) : m \in MemoryOrders}
  \cup {IntrinsicCall("nacl_atomic_fence_all", VoidTy, <<>>)}
  \cup {IntrinsicCall("nacl_atomic_is_lock_free", ty, <<n, NormPtr>>) :
          ty \in {I1, AggTy},
          n \in {ConstInt(I32, k) : k \in {0, 1, 3, 8}} \cup {Arg(I32), Val("undef", I32)}}

OtherIntrinsicCalls ==
  {IntrinsicCall("nacl_read_tp", P(I8), <<>>),
   IntrinsicCall("trap", VoidTy, <<>>),
   IntrinsicCall("dbg_declare", VoidTy, <<Val("md", MetadataTy), Val("md", MetadataTy)>>),
   IntrinsicCall("sadd_with_overflow", AggTy, <<Arg(I32), Arg(I32)>>),
   IntrinsicCall("not_intrinsic", P(AggTy), <<>>)}
  \cup {IntrinsicCall("sqrt", FloatTy, <<a>>) :
          a \in Forms(FloatTy) \cup {Val("gvar", P(I32)), Val("null", P(I32))}}

SwitchInsts ==
  {[Inst("Switch", VoidTy, <<c, BB>>) EXCEPT !.cases = cs] :
     c \in Forms(I32) \cup Forms(I1) \cup Forms(I128),
     cs \in {<<>>, <<ConstInt(I32, 1)>>, <<ConstInt(I32, 1), ConstInt(I128, 2)>>}}

MDLists == {<<"dbg">>, <<"tbaa">>, <<"dbg", "tbaa">>, <<"tbaa", "prof">>}

\* One accepted, one rejected and one bad-result instruction, each without
\* metadata and with every list of attached kinds.
RetVoid == Inst("Ret", VoidTy, <<>>)
GetElementPtr == Inst("GetElementPtr", P(I32), <<Arg(P(I32)), ConstInt(I32, 1)>>)
PhiOfStruct == Inst("PHI", AggTy, <<Arg(AggTy), BB>>)

MetadataInsts ==
  {[i EXCEPT !.md = md] : i \in {RetVoid, GetElementPtr, PhiOfStruct}, md \in MDLists}

\* Calls with arguments of a function named llvm.* that has no intrinsic ID.
UnknownIntrinsicCalls ==
  {IntrinsicCall("not_intrinsic", ty, <<a>>) :
     ty \in {VoidTy, I32},
     a \in {Arg(I32), Val("cexpr", I32), Val("md", MetadataTy), Val("gvar", P(I32)),
            InstVal("IntToPtr", P(I32))}}

InstructionForms ==
  RejectedOpcodeInsts \cup PlainInsts \cup ArithmeticInstsWellFormed
  \cup LoadInstsWellFormed \cup StoreInstsWellFormed \cup CastPtrInsts
  \cup AllocaInsts \cup VectorElementInsts \cup CallInsts \cup MemIntrinsicCalls
  \cup AtomicIntrinsicCalls \cup OtherIntrinsicCalls \cup SwitchInsts
  \cup MetadataInsts \cup UnknownIntrinsicCalls

\* Every call of a function named llvm.* without an intrinsic ID is tried
\* under both answers of IntrinsicInst::classof.
Instructions ==
  InstructionForms
  \cup {[i EXCEPT !.byName = TRUE] : i \in {j \in InstructionForms : CalleeWithoutID(j)}}

(***************************************************************************)
(* Bounded inputs: the functions handed to runOnFunction.  A function is   *)
(* its name and its list of basic blocks, each a non-empty list of         *)
(* instructions.  Every instruction of Instructions is tried alone; the    *)
(* walk over several blocks and instructions is tried on every function    *)
(* of at most MaxInsts instructions drawn from Palette.                    *)
(***************************************************************************)
MaxInsts == 3

Palette ==
  {RetVoid, GetElementPtr, PhiOfStruct,
   [RetVoid EXCEPT !.md = <<"dbg", "tbaa">>],
   [GetElementPtr EXCEPT !.md = <<"tbaa">>]}

RECURSIVE Bodies(_)
Bodies(n) ==
  {<<>>} \cup UNION {{<<b>> \o rest : b \in [1..k -> Palette], rest \in Bodies(n - k)} :
                      k \in 1..n}

NoFunction == [name |-> "", blocks |-> <<>>]

Functions ==
  {[name |-> "f", blocks |-> <<<<i>>>>] : i \in Instructions}
  \cup {[name |-> "g", blocks |-> b] : b \in Bodies(MaxInsts) \ {<<>>}}

NoModule == [asm |-> FALSE, globals |-> <<>>, aliases |-> <<>>, functions |-> <<>>,
             namedMD |-> <<>>]

(***************************************************************************)
(* The module pass (PNaClABIVerifyModule, lines 599-1104).                 *)
(*                                                                         *)
(* A global variable and a function are records carrying what the checks   *)
(* read; an initializer is a Constant [kind, ty, op, ops].                 *)
(***************************************************************************)
Const(kind, ty, op, ops) == [kind |-> kind, ty |-> ty, op |-> op, ops |-> ops]

isaConstantExpr(C) == C.kind = "cexpr"
isaConstantAggregateZero(C) == C.kind = "caz"
isaConstantDataArray(C) == C.kind = "cda"
isaConstantStruct(C) == C.kind = "cstruct"

linkageName(LT) ==
  CASE LT = "ExternalLinkage" -> "external"
    [] LT = "PrivateLinkage" -> "private "
    [] LT = "LinkerPrivateLinkage" -> "linker_private "
    [] LT = "LinkerPrivateWeakLinkage" -> "linker_private_weak "
    [] LT = "InternalLinkage" -> "internal "
    [] LT = "LinkOnceAnyLinkage" -> "linkonce "
    [] LT = "LinkOnceODRLinkage" -> "linkonce_odr "
    [] LT = "WeakAnyLinkage" -> "weak "
    [] LT = "WeakODRLinkage" -> "weak_odr "
    [] LT = "CommonLinkage" -> "common "
    [] LT = "AppendingLinkage" -> "appending "
    [] LT = "DLLImportLinkage" -> "dllimport "
    [] LT = "DLLExportLinkage" -> "dllexport "
    [] LT = "ExternalWeakLinkage" -> "extern_weak "
    [] LT = "AvailableExternallyLinkage" -> "available_externally "
    [] OTHER -> "unknown"

\* The checks below both add diagnostics and update SeenEntryPoint: each
\* returns the diagnostics it adds and the new value of the flag.
Outcome(errs, seen) == [errs |-> errs, seen |-> seen]

isaFunction(GV) == GV.kind = "func"
isaGlobalVariable(GV) == GV.kind = "gvar"

\* checkExternalSymbol without the early return for intrinsic functions.
checkExternalSymbol_IntrinsicsToo(GV, seen) ==
  LET ValidEntry == \/ isaFunction(GV) /\ GV.name = "_start"
                    \/ isaGlobalVariable(GV) /\ GV.name = "__pnacl_pso_root"
  IN IF ~ValidEntry
     THEN Outcome(<<Diag("", GV.name,
                         <<"is", "not", "a", "valid", "external", "symbol",
                           "(disallowed)">>, "", NoTy, NoAt)>>, seen)
     ELSE Outcome(IF seen
                  THEN <<Diag("", "", <<"Module", "has", "multiple", "entry",
                                        "points", "(disallowed)">>,
                              "", NoTy, NoAt)>>
                  ELSE <<>>,
                  TRUE)


checkExternalSymbol_FunctionsOnly(GV, seen) ==
  IF isaFunction(GV) /\ GV.isIntrinsic
  THEN Outcome(<<>>, seen)
  ELSE LET ValidEntry == isaFunction(GV) /\ GV.name = "_start"
       IN IF ~ValidEntry
          THEN Outcome(<<Diag("", GV.name,
                              <<"is", "not", "a", "valid", "external", "symbol",
                                "(disallowed)">>, "", NoTy, NoAt)>>, seen)
          ELSE Outcome(IF seen
                       THEN <<Diag("", "", <<"Module", "has", "multiple", "entry",
                                             "points", "(disallowed)">>,
                                   "", NoTy, NoAt)>>
                       ELSE <<>>,
                       TRUE)

checkExternalSymbol_NameOnly(GV, seen) ==
  IF isaFunction(GV) /\ GV.isIntrinsic
  THEN Outcome(<<>>, seen)
  ELSE LET ValidEntry == GV.name \in {"_start", "__pnacl_pso_root"}
       IN IF ~ValidEntry
          THEN Outcome(<<Diag("", GV.name,
                              <<"is", "not", "a", "valid", "external", "symbol",
                                "(disallowed)">>, "", NoTy, NoAt)>>, seen)
          ELSE Outcome(IF seen
                       THEN <<Diag("", "", <<"Module", "has", "multiple", "entry",
                                             "points", "(disallowed)">>,
                                   "", NoTy, NoAt)>>
                       ELSE <<>>,
                       TRUE)

checkExternalSymbol(GV, seen) ==
  IF isaFunction(GV) /\ GV.isIntrinsic
  THEN Outcome(<<>>, seen)
  ELSE LET ValidEntry == \/ isaFunction(GV) /\ GV.name = "_start"
                         \/ isaGlobalVariable(GV) /\ GV.name = "__pnacl_pso_root"
       IN IF ~ValidEntry
          THEN Outcome(<<Diag("", GV.name,
                              <<"is", "not", "a", "valid", "external", "symbol",
                                "(disallowed)">>, "", NoTy, NoAt)>>, seen)
          ELSE Outcome(IF seen
                       THEN <<Diag("", "", <<"Module", "has", "multiple", "entry",
                                             "points", "(disallowed)">>,
                                   "", NoTy, NoAt)>>
                       ELSE <<>>,
                       TRUE)

visibilityText(V) ==
  CASE V = "HiddenVisibility" -> "hidden"
    [] V = "ProtectedVisibility" -> "protected"
    [] OTHER -> "unknown"

checkGlobalValue_NoAddrSpace(GV, seen) ==
  LET GVTypeName == IF isaGlobalVariable(GV) THEN "Variable " ELSE "Function "
      linkage ==
        CASE GV.linkage = "ExternalLinkage" -> checkExternalSymbol(GV, seen)
          [] GV.linkage = "InternalLinkage" -> Outcome(<<>>, seen)
          [] OTHER ->
               Outcome(<<Diag(GVTypeName, GV.name,
                              <<"has", "disallowed", "linkage", "type:">>,
                              linkageName(GV.linkage), NoTy, NoAt)>>, seen)
      visibility ==
        IF GV.visibility # "DefaultVisibility"
        THEN <<Diag(GVTypeName, GV.name, <<"has", "disallowed", "visibility:">>,
                    visibilityText(GV.visibility), NoTy, NoAt)>>
        ELSE <<>>
      section ==
        IF GV.hasSection
        THEN <<Diag(GVTypeName, GV.name,
                    <<"has", "disallowed", "\"section\"", "attribute">>,
                    "", NoTy, NoAt)>>
        ELSE <<>>
      unnamed ==
        IF GV.hasUnnamedAddr
        THEN <<Diag(GVTypeName, GV.name,
                    <<"has", "disallowed", "\"unnamed_addr\"", "attribute">>,
                    "", NoTy, NoAt)>>
        ELSE <<>>
  IN Outcome(linkage.errs \o visibility \o section \o unnamed, linkage.seen)

checkGlobalValue(GV, seen) ==
  LET GVTypeName == IF isaGlobalVariable(GV) THEN "Variable " ELSE "Function "
      linkage ==
        CASE GV.linkage = "ExternalLinkage" -> checkExternalSymbol(GV, seen)
          [] GV.linkage = "InternalLinkage" -> Outcome(<<>>, seen)
          [] OTHER ->
               Outcome(<<Diag(GVTypeName, GV.name,
                              <<"has", "disallowed", "linkage", "type:">>,
                              linkageName(GV.linkage), NoTy, NoAt)>>, seen)
      visibility ==
        IF GV.visibility # "DefaultVisibility"
        THEN <<Diag(GVTypeName, GV.name, <<"has", "disallowed", "visibility:">>,
                    visibilityText(GV.visibility), NoTy, NoAt)>>
        ELSE <<>>
      section ==
        IF GV.hasSection
        THEN <<Diag(GVTypeName, GV.name,
                    <<"has", "disallowed", "\"section\"", "attribute">>,
                    "", NoTy, NoAt)>>
        ELSE <<>>
      addrspace ==
        IF GV.addrspace # 0
        THEN <<Diag(GVTypeName, GV.name,
                    <<"has", "addrspace", "attribute", "(disallowed)">>,
                    "", NoTy, NoAt)>>
        ELSE <<>>
      unnamed ==
        IF GV.hasUnnamedAddr
        THEN <<Diag(GVTypeName, GV.name,
                    <<"has", "disallowed", "\"unnamed_addr\"", "attribute">>,
                    "", NoTy, NoAt)>>
        ELSE <<>>
  IN Outcome(linkage.errs \o visibility \o section \o addrspace \o unnamed,
             linkage.seen)

\* checkGlobalVariable is declared in PNaClABIVerifyModule.h, which is not in
\* the sources: per the specification it applies the shared global-value
\* checks to the variable.
checkGlobalVariable(GV, seen) == checkGlobalValue(GV, seen)

isPtrToIntOfGlobal(C) ==
  /\ isaConstantExpr(C)
  /\ C.op = "PtrToInt"
  /\ isaGlobalValue(C.ops[1])

isSimpleElement_AnyArray(C) ==
  IF C.ty.k = "array"
  THEN isaConstantAggregateZero(C) \/ isaConstantDataArray(C)
  ELSE IF isIntegerTyW(C.ty, 32)
  THEN IF ~isaConstantExpr(C)
       THEN FALSE
       ELSE \/ isPtrToIntOfGlobal(C)
            \/ /\ C.op = "Add"
               /\ isPtrToIntOfGlobal(C.ops[1])
               /\ isaConstantInt(C.ops[2])
  ELSE FALSE

isSimpleElement(C) ==
  IF C.ty.k = "array"
  THEN /\ isIntegerTyW(C.ty.elt, 8)
       /\ (isaConstantAggregateZero(C) \/ isaConstantDataArray(C))
  ELSE IF isIntegerTyW(C.ty, 32)
  THEN IF ~isaConstantExpr(C)
       THEN FALSE
       ELSE \/ isPtrToIntOfGlobal(C)
            \/ /\ C.op = "Add"
               /\ isPtrToIntOfGlobal(C.ops[1])
               /\ isaConstantInt(C.ops[2])
  ELSE FALSE

isCompoundElement(C) ==
  IF \/ ~isaConstantStruct(C)
     \/ ~C.ty.packed
     \/ C.ty.named
     \/ Len(C.ops) <= 1
  THEN FALSE
  ELSE \A I \in 1..Len(C.ops) : isSimpleElement(C.ops[I])

checkGlobalIsFlattened(GV) ==
  IF ~GV.hasInitializer
  THEN <<Diag("Global variable ", GV.name,
              <<"has", "no", "initializer", "(disallowed)">>, "", NoTy, NoAt)>>
  ELSE IF isSimpleElement(GV.init) \/ isCompoundElement(GV.init)
  THEN <<>>
  ELSE <<Diag("Global variable ", GV.name,
              <<"has", "non-flattened", "initializer", "(disallowed):">>,
              "", NoTy, NoAt)>>

(***************************************************************************)
(* PNaClAllowedIntrinsics: the registry built by the constructor and       *)
(* isAllowed.  addIntrinsic, Intrinsic::getName and Intrinsic::getType are *)
(* not in the sources: addIntrinsic(ID, Tys) maps the mangled name of the  *)
(* intrinsic to its function type, as the specification describes.         *)
(***************************************************************************)
I16 == IntTy(16)

MangledTypeStr(Ty) ==
  CASE Ty = I8 -> ".i8"
    [] Ty = I16 -> ".i16"
    [] Ty = I32 -> ".i32"
    [] Ty = I64 -> ".i64"
    [] Ty = FloatTy -> ".f32"
    [] Ty = DoubleTy -> ".f64"
    [] Ty = P(I8) -> ".p0i8"

IntrinsicBaseName(ID) ==
  CASE ID = "bswap" -> "llvm.bswap"
    [] ID = "ctlz" -> "llvm.ctlz"
    [] ID = "cttz" -> "llvm.cttz"
    [] ID = "ctpop" -> "llvm.ctpop"
    [] ID = "nacl_read_tp" -> "llvm.nacl.read.tp"
    [] ID = "nacl_longjmp" -> "llvm.nacl.longjmp"
    [] ID = "nacl_setjmp" -> "llvm.nacl.setjmp"
    [] ID = "sqrt" -> "llvm.sqrt"
    [] ID = "nacl_atomic_load" -> "llvm.nacl.atomic.load"
    [] ID = "nacl_atomic_store" -> "llvm.nacl.atomic.store"
    [] ID = "nacl_atomic_rmw" -> "llvm.nacl.atomic.rmw"
    [] ID = "nacl_atomic_cmpxchg" -> "llvm.nacl.atomic.cmpxchg"
    [] ID = "nacl_atomic_fence" -> "llvm.nacl.atomic.fence"
    [] ID = "nacl_atomic_fence_all" -> "llvm.nacl.atomic.fence.all"
    [] ID = "nacl_atomic_is_lock_free" -> "llvm.nacl.atomic.is.lock.free"
    [] ID = "stacksave" -> "llvm.stacksave"
    [] ID = "stackrestore" -> "llvm.stackrestore"
    [] ID = "trap" -> "llvm.trap"
    [] ID = "memcpy" -> "llvm.memcpy"
    [] ID = "memmove" -> "llvm.memmove"
    [] ID = "memset" -> "llvm.memset"

RECURSIVE MangledSuffix(_)
MangledSuffix(Tys) ==
  IF Tys = <<>> THEN "" ELSE MangledTypeStr(Head(Tys)) \o MangledSuffix(Tail(Tys))

IntrinsicGetName(ID, Tys) == IntrinsicBaseName(ID) \o MangledSuffix(Tys)

IntrinsicGetType(ID, Tys) ==
  CASE ID \in {"bswap", "ctpop", "sqrt"} -> FnTy(Tys[1], <<Tys[1]>>, FALSE)
    [] ID \in {"ctlz", "cttz"} -> FnTy(Tys[1], <<Tys[1], I1>>, FALSE)
    [] ID = "nacl_read_tp" -> FnTy(P(I8), <<>>, FALSE)
    [] ID = "nacl_longjmp" -> FnTy(VoidTy, <<P(I8), I32>>, FALSE)
    [] ID = "nacl_setjmp" -> FnTy(I32, <<P(I8)>>, FALSE)
    [] ID = "nacl_atomic_load" -> FnTy(Tys[1], <<P(Tys[1]), I32>>, FALSE)
    [] ID = "nacl_atomic_store" -> FnTy(VoidTy, <<Tys[1], P(Tys[1]), I32>>, FALSE)
    [] ID = "nacl_atomic_rmw" ->
         FnTy(Tys[1], <<I32, P(Tys[1]), Tys[1], I32>>, FALSE)
    [] ID = "nacl_atomic_cmpxchg" ->
         FnTy(Tys[1], <<P(Tys[1]), Tys[1], Tys[1], I32, I32>>, FALSE)
    [] ID = "nacl_atomic_fence" -> FnTy(VoidTy, <<I32>>, FALSE)
    [] ID = "nacl_atomic_fence_all" -> FnTy(VoidTy, <<>>, FALSE)
    [] ID = "nacl_atomic_is_lock_free" -> FnTy(I1, <<I32, P(I8)>>, FALSE)
    [] ID = "stacksave" -> FnTy(P(I8), <<>>, FALSE)
    [] ID = "stackrestore" -> FnTy(VoidTy, <<P(I8)>>, FALSE)
    [] ID = "trap" -> FnTy(VoidTy, <<>>, FALSE)
    [] ID \in {"memcpy", "memmove"} ->
         FnTy(VoidTy, <<Tys[1], Tys[2], Tys[3], I32, I1>>, FALSE)
    [] ID = "memset" -> FnTy(VoidTy, <<Tys[1], I8, Tys[2], I32, I1>>, FALSE)

\* The addIntrinsic calls of the constructor, as <<ID, Tys>>.
AtomicTypes == {I8, I16, I32, I64}
MemcpyTypes == <<P(I8), P(I8), I32>>
MemsetTypes == <<P(I8), I32>>

AllowedIntrinsics ==
  {<<"bswap", <<t>>>> : t \in {I16, I32, I64}}
  \cup {<<id, <<t>>>> : id \in {"ctlz", "cttz", "ctpop"}, t \in {I32, I64}}
  \cup {<<id, <<>>>> : id \in {"nacl_read_tp", "nacl_longjmp", "nacl_setjmp"}}
  \cup {<<"sqrt", <<t>>>> : t \in {FloatTy, DoubleTy}}
  \cup {<<id, <<t>>>> : id \in {"nacl_atomic_load", "nacl_atomic_store",
                                "nacl_atomic_rmw", "nacl_atomic_cmpxchg"},
                        t \in AtomicTypes}
  \cup {<<id, <<>>>> : id \in {"nacl_atomic_fence", "nacl_atomic_fence_all",
                               "nacl_atomic_is_lock_free", "stacksave",
                               "stackrestore", "trap"}}
  \cup {<<"memcpy", MemcpyTypes>>, <<"memmove", MemcpyTypes>>,
        <<"memset", MemsetTypes>>}

Mapping ==
  [n \in {IntrinsicGetName(e[1], e[2]) : e \in AllowedIntrinsics} |->
     LET e == CHOOSE x \in AllowedIntrinsics : IntrinsicGetName(x[1], x[2]) = n
     IN IntrinsicGetType(e[1], e[2])]

isAllowed_NameOnly(Func, allow) ==
  IF Func.name \in DOMAIN Mapping
  THEN TRUE
  ELSE CASE Func.iid \in {"dbg_declare", "dbg_value"} -> allow
         [] OTHER -> FALSE

isAllowed(Func, allow) ==
  IF Func.name \in DOMAIN Mapping
  THEN Func.fty = Mapping[Func.name]
  ELSE CASE Func.iid \in {"expect", "flt_rounds"} -> FALSE
         [] Func.iid \in {"dbg_declare", "dbg_value"} -> allow
         [] OTHER -> FALSE

\* A named metadata node is named by the dot-separated components of its
\* name; startswith("llvm.dbg.") needs the two components and the dot after
\* them.
StartsWithLlvmDbg(Name) == Len(Name) > 2 /\ Name[1] = "llvm" /\ Name[2] = "dbg"

isWhitelistedMetadata(Name, allow) == StartsWithLlvmDbg(Name) /\ allow

checkCallingConv(Conv, Name) ==
  IF Conv # "C"
  THEN <<Diag("Function ", Name, <<"has", "disallowed", "calling", "convention:">>,
              Conv, NoTy, NoAt)>>
  ELSE <<>>

checkFunction_AlignAllowed(Fn, seen, streaming, allow) ==
  LET Name == Fn.name
      byKind ==
        IF Fn.isIntrinsic
        THEN IF ~isAllowed(Fn, allow)
             THEN <<Diag("Function ", Fn.name,
                         <<"is", "a", "disallowed", "LLVM", "intrinsic">>,
                         "", NoTy, NoAt)>>
             ELSE <<>>
        ELSE (IF ~isValidFunctionType(Fn.fty)
              THEN <<Diag("Function ", Name, <<"has", "disallowed", "type:">>,
                          "", Fn.fty, NoAt)>>
              ELSE <<>>)
             \o (IF ~streaming /\ Fn.isDeclaration
                 THEN <<Diag("Function ", Name,
                             <<"is", "declared", "but", "not", "defined",
                               "(disallowed)">>, "", NoTy, NoAt)>>
                 ELSE <<>>)
             \o (IF Fn.hasAttributes
                 THEN <<Diag("Function ", Name,
                             <<"has", "disallowed", "attributes:">>,
                             "", NoTy, NoAt)>>
                 ELSE <<>>)
             \o checkCallingConv(Fn.cc, Name)
      gv == checkGlobalValue(Fn, seen)
      gc ==
        IF Fn.hasGC
        THEN <<Diag("Function ", Name,
                    <<"has", "disallowed", "\"gc\"", "attribute">>, "", NoTy, NoAt)>>
        ELSE <<>>
  IN Outcome(byKind \o gv.errs \o gc, gv.seen)

checkFunction(Fn, seen, streaming, allow) ==
  LET Name == Fn.name
      byKind ==
        IF Fn.isIntrinsic
        THEN IF ~isAllowed(Fn, allow)
             THEN <<Diag("Function ", Fn.name,
                         <<"is", "a", "disallowed", "LLVM", "intrinsic">>,
                         "", NoTy, NoAt)>>
             ELSE <<>>
        ELSE (IF ~isValidFunctionType(Fn.fty)
              THEN <<Diag("Function ", Name, <<"has", "disallowed", "type:">>,
                          "", Fn.fty, NoAt)>>
              ELSE <<>>)
             \o (IF ~streaming /\ Fn.isDeclaration
                 THEN <<Diag("Function ", Name,
                             <<"is", "declared", "but", "not", "defined",
                               "(disallowed)">>, "", NoTy, NoAt)>>
                 ELSE <<>>)
             \o (IF Fn.hasAttributes
                 THEN <<Diag("Function ", Name,
                             <<"has", "disallowed", "attributes:">>,
                             "", NoTy, NoAt)>>
                 ELSE <<>>)
             \o checkCallingConv(Fn.cc, Name)
      gv == checkGlobalValue(Fn, seen)
      gc ==
        IF Fn.hasGC
        THEN <<Diag("Function ", Name,
                    <<"has", "disallowed", "\"gc\"", "attribute">>, "", NoTy, NoAt)>>
        ELSE <<>>
      align ==
        IF Fn.align # 0
        THEN <<Diag("Function ", Name,
                    <<"has", "disallowed", "\"align\"", "attribute">>,
                    "", NoTy, NoAt)>>
        ELSE <<>>
  IN Outcome(byKind \o gv.errs \o gc \o align, gv.seen)

(***************************************************************************)
(* Inputs of the module pass.                                              *)
(***************************************************************************)
GlobalRef == Val("gvar", P(I32))
FunctionRef == Val("func", P(VoidFnTy))
AliasRef == Val("alias", P(I32))

ConstLeaf(kind, ty) == Const(kind, ty, "none", <<>>)
PtrToInt(v, ty) == Const("cexpr", ty, "PtrToInt", <<v>>)
BinExpr(op, a, b, ty) == Const("cexpr", ty, op, <<a, b>>)
I8Array == ArrayTy(I8, 4)
I32Array == ArrayTy(I32, 4)

\* ConstantStruct::get folds a struct whose fields are all zero into a
\* ConstantAggregateZero and one whose fields are all undef into an
\* UndefValue, so a ConstantStruct has a field that is neither.
CStruct(packed, named, fs) ==
  Const("cstruct", StructTy(packed, named, [i \in DOMAIN fs |-> fs[i].ty]),
        "none", fs)

MaxFields == 2

FieldSamples ==
  {ConstLeaf("cda", I8Array), ConstLeaf("caz", I8Array),
   PtrToInt(GlobalRef, I32),
   BinExpr("Add", PtrToInt(FunctionRef, I32), ConstLeaf("cint", I32), I32),
   ConstLeaf("cint", I32),
   BinExpr("Add", ConstLeaf("cint", I32), PtrToInt(GlobalRef, I32), I32)}

StructInits ==
  {CStruct(packed, named, fs) :
     packed \in BOOLEAN, named \in BOOLEAN,
     fs \in {x \in UNION {[1..n -> FieldSamples] : n \in 1..MaxFields} :
               \E i \in DOMAIN x : x[i].kind # "caz"}}

FlatStruct ==
  CStruct(TRUE, FALSE, <<ConstLeaf("cda", I8Array), PtrToInt(GlobalRef, I32)>>)

OtherInits ==
  {ConstLeaf("cda", I8Array), ConstLeaf("caz", I8Array),
   ConstLeaf("undef", I8Array), ConstLeaf("carray", I8Array),
   ConstLeaf("cda", I32Array), ConstLeaf("caz", I32Array),
   ConstLeaf("caz", ArrayTy(I8Array, 2)),
   ConstLeaf("cint", I32), ConstLeaf("cint", I8), ConstLeaf("cfp", FloatTy),
   ConstLeaf("undef", I32), ConstLeaf("null", P(I8)), ConstLeaf("gvar", P(I32)),
   ConstLeaf("caz", StructTy(TRUE, FALSE, <<I8Array, I8Array>>)),
   PtrToInt(GlobalRef, I32), PtrToInt(FunctionRef, I32), PtrToInt(AliasRef, I32),
   PtrToInt(GlobalRef, I64), PtrToInt(GlobalRef, I8),
   PtrToInt(Const("cexpr", P(I8), "BitCast", <<GlobalRef>>), I32),
   PtrToInt(ConstLeaf("null", P(I8)), I32),
   Const("cexpr", I32, "Trunc", <<PtrToInt(GlobalRef, I64)>>),
   Const("cexpr", P(I8), "BitCast", <<GlobalRef>>),
   BinExpr("Add", PtrToInt(GlobalRef, I32), ConstLeaf("cint", I32), I32),
   BinExpr("Add", ConstLeaf("cint", I32), PtrToInt(GlobalRef, I32), I32),
   BinExpr("Add", PtrToInt(GlobalRef, I32), PtrToInt(GlobalRef, I32), I32),
   BinExpr("Add", PtrToInt(GlobalRef, I32), ConstLeaf("undef", I32), I32),
   BinExpr("Add", PtrToInt(GlobalRef, I64), ConstLeaf("cint", I64), I64),
   BinExpr("Add", PtrToInt(ConstLeaf("null", P(I8)), I32), ConstLeaf("cint", I32),
           I32),
   BinExpr("Sub", PtrToInt(GlobalRef, I32), ConstLeaf("cint", I32), I32),
   CStruct(TRUE, FALSE, <<FlatStruct, ConstLeaf("cda", I8Array)>>),
   CStruct(TRUE, FALSE, <<ConstLeaf("cda", I8Array), FlatStruct>>)}

Initializers == OtherInits \cup StructInits

GlobalVariable(name) ==
  [kind |-> "gvar", name |-> name, linkage |-> "InternalLinkage",
   visibility |-> "DefaultVisibility", hasSection |-> FALSE, addrspace |-> 0,
   hasUnnamedAddr |-> FALSE, isThreadLocal |-> FALSE,
   isExternallyInitialized |-> FALSE, hasInitializer |-> TRUE,
   init |-> ConstLeaf("cda", I8Array), align |-> 0]

Function(name) ==
  [kind |-> "func", name |-> name, isIntrinsic |-> FALSE, iid |-> "not_intrinsic",
   fty |-> VoidFnTy, linkage |-> "InternalLinkage",
   visibility |-> "DefaultVisibility", hasSection |-> FALSE, addrspace |-> 0,
   hasUnnamedAddr |-> FALSE, isDeclaration |-> FALSE, hasAttributes |-> FALSE,
   cc |-> "C", hasGC |-> FALSE, align |-> 0]

\* An intrinsic is a declaration named llvm.*.
IntrinsicFunction(name, iid, fty) ==
  [Function(name) EXCEPT !.isIntrinsic = TRUE, !.iid = iid, !.fty = fty,
                         !.linkage = "ExternalLinkage", !.isDeclaration = TRUE]

GlobalVariables ==
  {[GlobalVariable(n) EXCEPT !.linkage = l, !.visibility = v, !.hasSection = s,
                             !.addrspace = as, !.hasUnnamedAddr = u,
                             !.isThreadLocal = t,
                             !.isExternallyInitialized = e,
                             !.hasInitializer = h, !.align = al] :
     n \in {"v", "__pnacl_pso_root"},
     l \in {"ExternalLinkage", "InternalLinkage", "WeakAnyLinkage",
            "PrivateLinkage"},
     v \in {"DefaultVisibility", "HiddenVisibility", "ProtectedVisibility"},
     s \in BOOLEAN, as \in {0, 1}, u \in BOOLEAN, t \in BOOLEAN, e \in BOOLEAN,
     h \in BOOLEAN, al \in {0, 8}}
  \cup {[GlobalVariable("v") EXCEPT !.init = c] : c \in Initializers}

IntrinsicSamples ==
  {IntrinsicFunction("llvm.bswap.i32", "bswap", FnTy(I32, <<I32>>, FALSE)),
   IntrinsicFunction("llvm.memcpy.p0i8.p0i8.i32", "memcpy",
                     FnTy(VoidTy, <<P(I8), P(I8), I32, I32, I1>>, FALSE)),
   IntrinsicFunction("llvm.nacl.atomic.load.i8", "nacl_atomic_load",
                     FnTy(I8, <<P(I8), I32>>, FALSE)),
   IntrinsicFunction("llvm.trap", "trap", I32FnTy),
   IntrinsicFunction("llvm.ctpop.i16", "ctpop", FnTy(I16, <<I16>>, FALSE)),
   IntrinsicFunction("llvm.memcpy.p0i8.p0i8.i64", "memcpy",
                     FnTy(VoidTy, <<P(I8), P(I8), I64, I32, I1>>, FALSE)),
   IntrinsicFunction("llvm.expect.i32", "expect", FnTy(I32, <<I32, I32>>, FALSE)),
   IntrinsicFunction("llvm.flt.rounds", "flt_rounds", FnTy(I32, <<>>, FALSE)),
   IntrinsicFunction("llvm.dbg.declare", "dbg_declare",
                     FnTy(VoidTy, <<MetadataTy, MetadataTy>>, FALSE)),
   IntrinsicFunction("llvm.dbg.value", "dbg_value",
                     FnTy(VoidTy, <<MetadataTy, I64, MetadataTy>>, FALSE)),
   IntrinsicFunction("llvm.cos.f32", "cos", FnTy(FloatTy, <<FloatTy>>, FALSE))}

ModuleFunctions ==
  {[Function(n) EXCEPT !.linkage = l, !.hasSection = s, !.addrspace = as,
                       !.isDeclaration = d, !.hasAttributes = a, !.cc = c,
                       !.hasGC = g, !.align = al, !.fty = t] :
     n \in {"f", "_start"},
     l \in {"ExternalLinkage", "InternalLinkage", "LinkOnceODRLinkage"},
     s \in BOOLEAN, as \in {0, 1}, d \in BOOLEAN, a \in BOOLEAN,
     c \in {"C", "fastcc"}, g \in BOOLEAN, al \in {0, 16},
     t \in {VoidFnTy, VarArgFnTy}}
  \cup {[Function("f") EXCEPT !.visibility = v, !.hasUnnamedAddr = u] :
          v \in {"HiddenVisibility", "ProtectedVisibility"}, u \in BOOLEAN}
  \cup {[i EXCEPT !.hasSection = s, !.addrspace = as, !.hasAttributes = a,
                  !.cc = c, !.hasGC = g, !.align = al] :
          i \in IntrinsicSamples, s \in BOOLEAN, as \in {0, 1}, a \in BOOLEAN,
          c \in {"C", "fastcc"}, g \in BOOLEAN, al \in {0, 16}}

NamedMDNames ==
  {<<"llvm", "dbg", "cu">>, <<"llvm", "dbg", "">>, <<"llvm", "dbg">>,
   <<"llvm", "dbgx", "cu">>, <<"llvm", "module", "flags">>, <<"foo">>}

\* Modules of several entities, from small palettes; the symbols of a
\* module have distinct names.
MaxGlobals == 2
MaxFunctions == 2

GlobalPalette ==
  {GlobalVariable("a"),
   [GlobalVariable("__pnacl_pso_root") EXCEPT !.linkage = "ExternalLinkage"],
   [GlobalVariable("v") EXCEPT !.linkage = "ExternalLinkage",
                               !.isThreadLocal = TRUE]}

FunctionPalette ==
  {[Function("_start") EXCEPT !.linkage = "ExternalLinkage"],
   Function("f"),
   [Function("h") EXCEPT !.linkage = "ExternalLinkage"],
   [Function("k") EXCEPT !.hasGC = TRUE]}

DistinctNames(list) ==
  \A i, j \in DOMAIN list : i # j => list[i].name # list[j].name

ListsOf(S, n) ==
  {l \in UNION {[1..k -> S] : k \in 0..n} : DistinctNames(l)}

AliasLists == {<<>>, <<"al">>, <<"al", "al2">>}
NamedMDLists == {<<>>, <<<<"foo">>>>, <<<<"llvm", "dbg", "cu">>, <<"foo">>>>}

Module(asm, globals, aliases, functions, namedMD) ==
  [asm |-> asm, globals |-> globals, aliases |-> aliases,
   functions |-> functions, namedMD |-> namedMD]

\* External symbols carrying the two entry names, as a variable and as a
\* function; a module has one symbol of a name.
EntryNames == {"_start", "__pnacl_pso_root"}

EntryNamedGlobals ==
  {[GlobalVariable(n) EXCEPT !.linkage = "ExternalLinkage"] : n \in EntryNames}

EntryNamedFunctions ==
  {[Function(n) EXCEPT !.linkage = "ExternalLinkage"] : n \in EntryNames}

EntryNamedModules ==
  {Module(FALSE, gs, <<>>, fs, <<>>) :
     <<gs, fs>> \in {p \in ListsOf(EntryNamedGlobals, MaxGlobals)
                            \X ListsOf(EntryNamedFunctions, MaxFunctions) :
                      \A i \in DOMAIN p[1] : \A j \in DOMAIN p[2] :
                        p[1][i].name # p[2][j].name}}

\* Modules that declare intrinsics (two admitted ones and one that is not)
\* beside the entry points.
IntrinsicPalette ==
  {[Function("_start") EXCEPT !.linkage = "ExternalLinkage"],
   IntrinsicFunction("llvm.bswap.i32", "bswap", FnTy(I32, <<I32>>, FALSE)),
   IntrinsicFunction("llvm.memcpy.p0i8.p0i8.i32", "memcpy",
                     FnTy(VoidTy, <<P(I8), P(I8), I32, I32, I1>>, FALSE)),
   IntrinsicFunction("llvm.cos.f32", "cos", FnTy(FloatTy, <<FloatTy>>, FALSE))}

IntrinsicModules ==
  {Module(FALSE, gs, <<>>, fs, <<>>) :
     gs \in {<<>>, <<[GlobalVariable("__pnacl_pso_root")
                       EXCEPT !.linkage = "ExternalLinkage"]>>},
     fs \in ListsOf(IntrinsicPalette, MaxFunctions + 1)}

Modules ==
  {Module(asm, <<>>, <<>>, <<>>, <<>>) : asm \in BOOLEAN}
  \cup {Module(FALSE, <<g>>, <<>>, <<>>, <<>>) : g \in GlobalVariables}
  \cup {Module(FALSE, <<>>, <<>>, <<f>>, <<>>) : f \in ModuleFunctions}
  \cup {Module(FALSE, <<>>, <<>>, <<>>, <<n>>) : n \in NamedMDNames}
  \cup {Module(FALSE, gs, as, fs, ns) :
          gs \in ListsOf(GlobalPalette, MaxGlobals), as \in AliasLists,
          fs \in ListsOf(FunctionPalette, MaxFunctions), ns \in NamedMDLists}
  \cup EntryNamedModules
  \cup IntrinsicModules

(***************************************************************************)
(* The function pass: runOnFunction (lines 528-576).                       *)
(***************************************************************************)
Init ==
  /\ AllowDebugMetadata \in BOOLEAN
  /\ StreamingMode = FALSE
  /\ Errors = <<>>
  /\ FatalChecks = 0
  /\ pc = "idle"
  /\ F = NoFunction
  /\ BI = 0
  /\ II = 0
  /\ M = NoModule
  /\ MI = 0
  /\ SeenEntryPoint = FALSE
  /\ Result = "none"
  /\ AlignmentCall = NoAlignmentCall

CurrentInst == F.blocks[BI][II]

\* The entry of runOnFunction: F.begin(), FI->begin().  The Reporter is not
\* touched: the records it holds stay.
EnterFunction(f) ==
  /\ F' = f
  /\ BI' = 1
  /\ II' = 1
  /\ pc' = "fn_walk"
  /\ UNCHANGED <<AlignmentCall, AllowDebugMetadata, StreamingMode,
                 Errors, FatalChecks, M, MI,
                 SeenEntryPoint, Result>>

\* The host hands a function to the pass.
RunOnFunction(f) == pc = "idle" /\ EnterFunction(f)

\* ++BBI, and ++FI at the end of a block; the loops end after the last block.
Advance_StopAtError ==
  IF Errors' # Errors
  THEN pc' = "fn_flush" /\ UNCHANGED <<BI, II>>
  ELSE IF II < Len(F.blocks[BI])
  THEN II' = II + 1 /\ UNCHANGED <<BI, pc>>
  ELSE IF BI < Len(F.blocks)
  THEN BI' = BI + 1 /\ II' = 1 /\ UNCHANGED pc
  ELSE BI' = BI + 1 /\ II' = 1 /\ pc' = "fn_flush"

Advance ==
  IF II < Len(F.blocks[BI])
  THEN II' = II + 1 /\ UNCHANGED <<BI, pc>>
  ELSE IF BI < Len(F.blocks)
  THEN BI' = BI + 1 /\ II' = 1 /\ UNCHANGED pc
  ELSE BI' = BI + 1 /\ II' = 1 /\ pc' = "fn_flush"

\* One iteration of the instruction loop (lines 537-570).
VisitInstruction ==
  /\ pc = "fn_walk"
  /\ \E ub \in UBChoices(CurrentInst) :
       IF InstructionError(CurrentInst, ub) = "crash"
       THEN /\ pc' = "crashed"
            /\ UNCHANGED <<Errors, BI, II>>
       ELSE /\ Errors' = Errors \o VisitDiags(F.name, CurrentInst, <<BI, II>>, ub,
                                             AllowDebugMetadata)
            /\ Advance
  /\ UNCHANGED <<AlignmentCall, AllowDebugMetadata, StreamingMode, FatalChecks, F, M, MI,
                 SeenEntryPoint, Result>>

FinishFunction_ChangedOnError ==
  /\ pc = "fn_flush"
  /\ FatalChecks' = FatalChecks + 1
  /\ Result' = (IF Errors # <<>> THEN "true" ELSE "false")
  /\ pc' = "fn_done"
  /\ UNCHANGED <<AlignmentCall, AllowDebugMetadata, StreamingMode,
                 Errors, F, BI, II, M, MI,
                 SeenEntryPoint>>

\* Reporter->checkForFatalErrors(); return false;  (lines 574-575)
FinishFunction ==
  /\ pc = "fn_flush"
  /\ FatalChecks' = FatalChecks + 1
  /\ Result' = "false"
  /\ pc' = "fn_done"
  /\ UNCHANGED <<AlignmentCall, AllowDebugMetadata, StreamingMode,
                 Errors, F, BI, II, M, MI,
                 SeenEntryPoint>>

\* print() (lines 581-585): the errors are printed and the Reporter is
\* reset; the pass can then be run on another function.
PrintFunction ==
  /\ pc = "fn_done"
  /\ Errors' = <<>>
  /\ FatalChecks' = 0
  /\ Result' = "none"
  /\ F' = NoFunction
  /\ BI' = 0
  /\ II' = 0
  /\ pc' = "idle"
  /\ UNCHANGED <<AlignmentCall, AllowDebugMetadata, StreamingMode,
                 M, MI, SeenEntryPoint>>

Next ==
  \/ \E f \in Functions : RunOnFunction(f)
  \/ VisitInstruction
  \/ FinishFunction
  \/ PrintFunction

Spec == Init /\ [][Next]_vars

(***************************************************************************)
(* The module pass: runOnModule (lines 1037-1086) and print (1091-1094).   *)
(***************************************************************************)
InitModule ==
  /\ AllowDebugMetadata \in BOOLEAN
  /\ StreamingMode \in BOOLEAN
  /\ Errors = <<>>
  /\ FatalChecks = 0
  /\ pc = "idle"
  /\ F = NoFunction
  /\ BI = 0
  /\ II = 0
  /\ M = NoModule
  /\ MI = 0
  /\ SeenEntryPoint = FALSE
  /\ Result = "none"
  /\ AlignmentCall = NoAlignmentCall

\* The loops of runOnModule in the order they are written, then the end of
\* the function.
LoopOrder_FunctionsBeforeAliases ==
  <<"mod_globals", "mod_functions", "mod_aliases", "mod_namedmd", "mod_finish">>

LoopOrder ==
  <<"mod_globals", "mod_aliases", "mod_functions", "mod_namedmd", "mod_finish">>

ListOf(m, loop) ==
  CASE loop = "mod_globals" -> m.globals
    [] loop = "mod_aliases" -> m.aliases
    [] loop = "mod_functions" -> m.functions
    [] loop = "mod_namedmd" -> m.namedMD
    [] OTHER -> <<>>

\* The first loop at or after position k that has something to iterate.
RECURSIVE NextLoop(_, _)
NextLoop(m, k) ==
  IF k >= Len(LoopOrder) \/ ListOf(m, LoopOrder[k]) # <<>>
  THEN LoopOrder[k]
  ELSE NextLoop(m, k + 1)

LoopIndex(loop) == CHOOSE k \in DOMAIN LoopOrder : LoopOrder[k] = loop

\* ++MI, and the next loop at the end of the list.
AdvanceModule ==
  IF MI < Len(ListOf(M, pc))
  THEN MI' = MI + 1 /\ UNCHANGED pc
  ELSE MI' = 1 /\ pc' = NextLoop(M, LoopIndex(pc) + 1)

InlineAsmDiags(m) ==
  IF m.asm
  THEN <<Diag("", "", <<"Module", "contains", "disallowed", "top-level", "inline",
                        "assembly">>, "", NoTy, NoAt)>>
  ELSE <<>>

EnterModule_KeepSeenEntryPoint(m) ==
  /\ M' = m
  /\ SeenEntryPoint' = SeenEntryPoint
  /\ Errors' = Errors \o InlineAsmDiags(m)
  /\ MI' = 1
  /\ pc' = NextLoop(m, 1)
  /\ UNCHANGED <<AlignmentCall, AllowDebugMetadata, StreamingMode,
                 FatalChecks, F, BI, II, Result>>

\* The entry of runOnModule (lines 1038-1044): the flag is reset, then the
\* module inline assembly is tested.
EnterModule(m) ==
  /\ M' = m
  /\ SeenEntryPoint' = FALSE
  /\ Errors' = Errors \o InlineAsmDiags(m)
  /\ MI' = 1
  /\ pc' = NextLoop(m, 1)
  /\ UNCHANGED <<AlignmentCall, AllowDebugMetadata, StreamingMode,
                 FatalChecks, F, BI, II, Result>>

\* The host hands a module to the pass.
RunOnModule(m) == pc = "idle" /\ EnterModule(m)

GlobalDiags_AlignReported(GV, seen) ==
  checkGlobalIsFlattened(GV)
  \o checkGlobalVariable(GV, seen).errs
  \o (IF GV.isThreadLocal
      THEN <<Diag("Variable ", GV.name,
                  <<"has", "disallowed", "\"thread_local\"", "attribute">>,
                  "", NoTy, NoAt)>>
      ELSE <<>>)
  \o (IF GV.isExternallyInitialized
      THEN <<Diag("Variable ", GV.name,
                  <<"has", "disallowed", "\"externally_initialized\"",
                    "attribute">>, "", NoTy, NoAt)>>
      ELSE <<>>)
  \o (IF GV.align # 0
      THEN <<Diag("Variable ", GV.name,
                  <<"has", "disallowed", "\"align\"", "attribute">>,
                  "", NoTy, NoAt)>>
      ELSE <<>>)

GlobalDiags(GV, seen) ==
  checkGlobalIsFlattened(GV)
  \o checkGlobalVariable(GV, seen).errs
  \o (IF GV.isThreadLocal
      THEN <<Diag("Variable ", GV.name,
                  <<"has", "disallowed", "\"thread_local\"", "attribute">>,
                  "", NoTy, NoAt)>>
      ELSE <<>>)
  \o (IF GV.isExternallyInitialized
      THEN <<Diag("Variable ", GV.name,
                  <<"has", "disallowed", "\"externally_initialized\"",
                    "attribute">>, "", NoTy, NoAt)>>
      ELSE <<>>)

\* One iteration of the global-variable loop (lines 1046-1059).
VisitGlobal ==
  /\ pc = "mod_globals"
  /\ Errors' = Errors \o GlobalDiags(M.globals[MI], SeenEntryPoint)
  /\ SeenEntryPoint' = checkGlobalVariable(M.globals[MI], SeenEntryPoint).seen
  /\ AdvanceModule
  /\ UNCHANGED <<AlignmentCall, AllowDebugMetadata, StreamingMode,
                 FatalChecks, F, BI, II, M,
                 Result>>

\* One iteration of the alias loop (lines 1062-1066).
VisitAlias ==
  /\ pc = "mod_aliases"
  /\ Errors' = Errors \o <<Diag("Variable ", M.aliases[MI],
                                <<"is", "an", "alias", "(disallowed)">>,
                                "", NoTy, NoAt)>>
  /\ AdvanceModule
  /\ UNCHANGED <<AlignmentCall, AllowDebugMetadata, StreamingMode,
                 FatalChecks, F, BI, II, M,
                 SeenEntryPoint, Result>>

VisitFunction_StreamingIgnored ==
  /\ pc = "mod_functions"
  /\ LET r == checkFunction(M.functions[MI], SeenEntryPoint, FALSE,
                            AllowDebugMetadata)
     IN /\ Errors' = Errors \o r.errs
        /\ SeenEntryPoint' = r.seen
  /\ AdvanceModule
  /\ UNCHANGED <<AlignmentCall, AllowDebugMetadata, StreamingMode,
                 FatalChecks, F, BI, II, M,
                 Result>>

\* One iteration of the function loop (lines 1068-1070).
VisitFunction ==
  /\ pc = "mod_functions"
  /\ LET r == checkFunction(M.functions[MI], SeenEntryPoint, StreamingMode,
                            AllowDebugMetadata)
     IN /\ Errors' = Errors \o r.errs
        /\ SeenEntryPoint' = r.seen
  /\ AdvanceModule
  /\ UNCHANGED <<AlignmentCall, AllowDebugMetadata, StreamingMode,
                 FatalChecks, F, BI, II, M,
                 Result>>

\* One iteration of the named-metadata loop (lines 1073-1079).
VisitNamedMD ==
  /\ pc = "mod_namedmd"
  /\ Errors' = Errors \o
       (IF ~isWhitelistedMetadata(M.namedMD[MI], AllowDebugMetadata)
        THEN <<Diag("Named metadata node ", M.namedMD[MI], <<"is", "disallowed">>,
                    "", NoTy, NoAt)>>
        ELSE <<>>)
  /\ AdvanceModule
  /\ UNCHANGED <<AlignmentCall, AllowDebugMetadata, StreamingMode,
                 FatalChecks, F, BI, II, M,
                 SeenEntryPoint, Result>>

NoEntryPointDiag ==
  Diag("", "", <<"Module", "has", "no", "entry", "point", "(disallowed)">>,
       "", NoTy, NoAt)

\* Lines 1081-1085: the entry-point check, checkForFatalErrors, return false.
FinishModule ==
  /\ pc = "mod_finish"
  /\ Errors' = Errors \o (IF ~SeenEntryPoint THEN <<NoEntryPointDiag>> ELSE <<>>)
  /\ FatalChecks' = FatalChecks + 1
  /\ Result' = "false"
  /\ pc' = "mod_done"
  /\ UNCHANGED <<AlignmentCall, AllowDebugMetadata, StreamingMode, F, BI, II, M, MI,
                 SeenEntryPoint>>

\* print(): the errors are printed and the Reporter is reset; the pass can
\* then be run on another module.  SeenEntryPoint is a member of the pass
\* and keeps its value.
PrintModule ==
  /\ pc = "mod_done"
  /\ Errors' = <<>>
  /\ FatalChecks' = 0
  /\ Result' = "none"
  /\ M' = NoModule
  /\ MI' = 0
  /\ pc' = "idle"
  /\ UNCHANGED <<AlignmentCall, AllowDebugMetadata, StreamingMode,
                 F, BI, II, SeenEntryPoint>>

NextModule ==
  \/ \E m \in Modules : RunOnModule(m)
  \/ VisitGlobal
  \/ VisitAlias
  \/ VisitFunction
  \/ VisitNamedMD
  \/ FinishModule
  \/ PrintModule

SpecModule == InitModule /\ [][NextModule]_vars

(***************************************************************************)
(* Both passes in one process: they read the same allow-debug-metadata     *)
(* option, and the module pass is run and printed before the function      *)
(* pass is handed a function.                                              *)
(***************************************************************************)
NextPasses == Next \/ NextModule

SpecPasses == Init /\ [][NextPasses]_vars

(***************************************************************************)
(* A pass run again on the same pass object.  The Reporter is the          *)
(* caller's: it is reset by print() only, so a run that follows another    *)
(* without print() adds to the records of the runs before it.              *)
(* FatalChecks counts the runs that have returned since the last reset;    *)
(* at most MaxRuns are made.  The modules are those whose external symbols *)
(* carry the entry names, and the modules without symbols; the functions   *)
(* are one that is rejected, one that is accepted and one of two           *)
(* instructions.                                                           *)
(***************************************************************************)
MaxRuns == 2

RepeatModules ==
  EntryNamedModules \cup {Module(asm, <<>>, <<>>, <<>>, <<>>) : asm \in BOOLEAN}

\* runOnModule is called again after it has returned.
RunOnModuleAgain(m) ==
  /\ pc = "mod_done"
  /\ FatalChecks < MaxRuns
  /\ EnterModule(m)

RepeatFunctions ==
  {[name |-> "f", blocks |-> <<<<Inst("Sub", I1, <<ConstInt(I1, 1), Arg(I1)>>)>>>>],
   [name |-> "f", blocks |-> <<<<RetVoid>>>>],
   [name |-> "g", blocks |-> <<<<Inst("Sub", I1, <<ConstInt(I1, 1), Arg(I1)>>),
                                 RetVoid>>>>]}

\* runOnFunction is called again after it has returned.
RunOnFunctionAgain(f) ==
  /\ pc = "fn_done"
  /\ FatalChecks < MaxRuns
  /\ EnterFunction(f)

NextRepeat ==
  \/ \E m \in RepeatModules : RunOnModule(m)
  \/ \E m \in RepeatModules : RunOnModuleAgain(m)
  \/ VisitGlobal
  \/ VisitFunction
  \/ FinishModule
  \/ PrintModule
  \/ \E f \in RepeatFunctions : RunOnFunction(f)
  \/ \E f \in RepeatFunctions : RunOnFunctionAgain(f)
  \/ VisitInstruction
  \/ FinishFunction
  \/ PrintFunction

SpecRepeat == InitModule /\ [][NextRepeat]_vars

(***************************************************************************)
(* isAllowedAlignment on its own (lines 133-159): a caller hands it any    *)
(* uint64_t and any type.  The alignments tried are 0, 3 and the powers of *)
(* two up to 2^MaxAlignmentLog, each with every value of the top three     *)
(* bits; the types are scalars and vectors of one to sixteen elements.     *)
(***************************************************************************)
MaxAlignmentLog == 5

AlignmentValues ==
  {[hi |-> h, lo |-> l] : h \in 0..7, l \in {0, 3} \cup {2^k : k \in 0..MaxAlignmentLog}}

AlignedTypes ==
  {I1, I8, I32, I64, FloatTy, DoubleTy, P(I8),
   V4I32, V4I1, V4F32, V2I64, VecTy(I8, 16), VecTy(IntTy(16), 8), VecTy(DoubleTy, 2),
   VecTy(I32, 1), VecTy(I8, 1)}

InitAlignment ==
  /\ AllowDebugMetadata = FALSE
  /\ StreamingMode = FALSE
  /\ Errors = <<>>
  /\ FatalChecks = 0
  /\ pc = "idle"
  /\ F = NoFunction
  /\ BI = 0
  /\ II = 0
  /\ M = NoModule
  /\ MI = 0
  /\ SeenEntryPoint = FALSE
  /\ Result = "none"
  /\ AlignmentCall \in {[Alignment |-> A, Ty |-> T, Allowed |-> "none"] :
                          A \in AlignmentValues, T \in AlignedTypes}

\* The call returns.
CallIsAllowedAlignment ==
  /\ AlignmentCall.Allowed = "none"
  /\ AlignmentCall' =
       [AlignmentCall EXCEPT !.Allowed =
          IF isAllowedAlignment(AlignmentCall.Alignment, AlignmentCall.Ty)
          THEN "true" ELSE "false"]
  /\ UNCHANGED <<AllowDebugMetadata, StreamingMode, Errors, FatalChecks, pc, F, BI, II,
                 M, MI, SeenEntryPoint, Result>>

NextAlignment == CallIsAllowedAlignment

SpecAlignment == InitAlignment /\ [][NextAlignment]_vars

(***************************************************************************)
(* Properties of the function pass, checked under Spec.                    *)
(*                                                                         *)
(* A diagnostic about an instruction prints that instruction, so it is     *)
(* attributed to the position <<block, instruction>> it carries.           *)
(***************************************************************************)
RECURSIVE WalkFrom(_, _, _)
WalkFrom(f, b, i) ==
  IF b > Len(f.blocks) THEN <<>>
  ELSE IF i > Len(f.blocks[b]) THEN WalkFrom(f, b + 1, 1)
  ELSE <<<<b, i>>>> \o WalkFrom(f, b, i + 1)

PositionsOf(f) == {WalkFrom(f, 1, 1)[k] : k \in DOMAIN WalkFrom(f, 1, 1)}
Before(p, q) == p[1] < q[1] \/ (p[1] = q[1] /\ p[2] < q[2])
InstAt(p) == F.blocks[p[1]][p[2]]

\* The instructions the walk has finished with.
Checked ==
  IF pc \in {"fn_walk", "crashed"}
  THEN {p \in PositionsOf(F) : Before(p, <<BI, II>>)}
  ELSE IF pc \in {"fn_flush", "fn_done"} THEN PositionsOf(F)
  ELSE {}

ReportsAt(p) == {k \in DOMAIN Errors : Errors[k].at = p}
ErrorsAt(p) == {Errors[k].detail : k \in ReportsAt(p)}

\* Exactly one diagnostic prints the instruction at p, and it says e.
RejectedWith(p, e) ==
  /\ Cardinality(ReportsAt(p)) = 1
  /\ \A k \in ReportsAt(p) :
       /\ Errors[k].subject = "Function "
       /\ Errors[k].name = F.name
       /\ Errors[k].words = <<"disallowed:">>
       /\ Errors[k].detail = e

CaseLabels ==
  OpcodesOutsidePNaCl \cup PlainOpcodes \cup ArithmeticOpcodes
  \cup {"ExtractElement", "InsertElement", "Load", "Store", "BitCast", "IntToPtr",
        "PtrToInt", "Alloca", "Call", "Switch"}

\* C1: an instruction whose opcode is in the always-forbidden set is reported
\* as "bad instruction opcode", whatever its operands, flags and result type
\* (no result type is printed, no other error is reported for it); an
\* instruction whose opcode has no case is reported as "unknown instruction
\* opcode".
C1_ForbiddenOpcodes ==
  \A p \in Checked :
    /\ InstAt(p).op \in OpcodesOutsidePNaCl =>
         /\ RejectedWith(p, "bad instruction opcode")
         /\ \A k \in ReportsAt(p) : Errors[k].ty = NoTy
    /\ InstAt(p).op \notin CaseLabels =>
         /\ RejectedWith(p, "unknown instruction opcode")
         /\ \A k \in ReportsAt(p) : Errors[k].ty = NoTy

\* C1 happens: a fence with an aggregate result type and a constant
\* expression operand has been reported as a bad opcode.
C1_Witness ==
  /\ pc = "fn_done"
  /\ \E p \in Checked :
       /\ InstAt(p).op = "Fence"
       /\ InstAt(p).ty = AggTy
       /\ InstAt(p).ops[1].kind = "cexpr"
       /\ ErrorsAt(p) = {"bad instruction opcode"}

\* The pointer forms the specification lists for a memory-touching
\* instruction.
ListedPointerForm(V) ==
  \/ V.kind = "inst" /\ V.op = "Alloca"
  \/ V.kind \in {"gvar", "func", "alias"} /\ ~V.intr
  \/ V.kind = "inst" /\ V.op = "IntToPtr"
  \/ V.kind = "inst" /\ V.op = "BitCast" /\ V.castOfInherent
  \/ V.kind = "inst" /\ V.op = "Call" /\ V.intr

\* What the load, store and call cases test: the form without the
\* requirement on the operand of a bitcast, and a valid pointer type.
TestedPointerForm(V) ==
  /\ \/ V.kind = "inst" /\ V.op \in {"Alloca", "IntToPtr", "BitCast"}
     \/ V.kind \in {"gvar", "func", "alias"} /\ ~V.intr
     \/ V.kind = "inst" /\ V.op = "Call" /\ V.intr
  /\ V.ty.k = "ptr"
  /\ V.ty.as = 0
  /\ \/ isValidScalarType(V.ty.to) /\ V.ty.to # I1
     \/ V.ty.to \in ValidVectorShapes /\ V.ty.to.elt # I1
     \/ V.ty.to.k = "fn" /\ isValidFunctionType(V.ty.to)

IsLoadStore(I) == I.op \in {"Load", "Store"}
PointerOperand(I) == IF I.op = "Load" THEN I.ops[1] ELSE I.ops[2]
IsPlainCall(I) == I.op = "Call" /\ ~IsIntrinsicInst(I)
Callee(I) == I.ops[Len(I.ops)]

\* C3 (as amended): a load or store that is neither atomic nor volatile and
\* whose pointer operand is not an alloca, a non-intrinsic global, an
\* inttoptr result, a bitcast result or an intrinsic call result of a valid
\* pointer type is reported as "bad pointer"; an atomic or volatile one is
\* reported as such instead.  A non-intrinsic call that is not inline
\* assembly, has no attributes and the C calling convention, and whose
\* callee is not of that form, is reported as "bad function callee operand".
\* A bitcast of a non-InherentPtr is accepted as a pointer operand: it is the
\* bitcast instruction that is reported.
C3_PointerForms ==
  \A p \in Checked :
    LET I == InstAt(p) IN
    /\ IsLoadStore(I) /\ ~TestedPointerForm(PointerOperand(I)) =>
         RejectedWith(p, IF I.atomic THEN "atomic " \o (IF I.op = "Load" THEN "load" ELSE "store")
                         ELSE IF I.volatile THEN "volatile " \o (IF I.op = "Load" THEN "load" ELSE "store")
                         ELSE "bad pointer")
    /\ IsPlainCall(I) /\ ~TestedPointerForm(Callee(I)) =>
         RejectedWith(p, IF isInlineAsm(I) THEN "inline assembly"
                         ELSE IF I.attrs THEN "bad call attributes"
                         ELSE IF I.cc # "C" THEN "bad calling conv"
                         ELSE "bad function callee operand")
    /\ I.op = "BitCast" /\ I.ty.k = "ptr" /\ ~ListedPointerForm(I.ops[1])
       /\ ~(I.ops[1].kind = "inst" /\ I.ops[1].op \in {"IntToPtr", "BitCast"}) =>
         RejectedWith(p, "operand not InherentPtr")

\* C3 happens: a plain load through a function argument has been reported as
\* a bad pointer.
C3_Witness ==
  /\ pc = "fn_done"
  /\ \E p \in Checked :
       /\ InstAt(p).op = "Load"
       /\ ~InstAt(p).atomic /\ ~InstAt(p).volatile
       /\ InstAt(p).ops[1].kind = "arg"
       /\ ErrorsAt(p) = {"bad pointer"}

\* C3 as stated: every load, store or non-intrinsic call whose pointer
\* operand is not of a listed form is reported as "bad pointer" ("bad
\* function callee operand" for a call).
C3_AsStated ==
  \A p \in Checked :
    LET I == InstAt(p) IN
    /\ IsLoadStore(I) /\ ~ListedPointerForm(PointerOperand(I)) =>
         "bad pointer" \in ErrorsAt(p)
    /\ IsPlainCall(I) /\ ~ListedPointerForm(Callee(I)) =>
         "bad function callee operand" \in ErrorsAt(p)

\* The alignments the specification allows for a scalar access type.
ListedAlignment(align, Ty) ==
  \/ align = 1
  \/ Ty.k = "float" /\ align = 4
  \/ Ty.k = "double" /\ align = 8

IsScalarAccess(Ty) == Ty.k \in {"int", "float", "double"}
AccessType(I) == IF I.op = "Load" THEN I.ty ELSE I.ops[1].ty

IsMemIntrinsicCall(I) ==
  /\ I.op = "Call"
  /\ Callee(I).kind = "func"
  /\ Callee(I).intr
  /\ Callee(I).iid \in {"memcpy", "memmove", "memset"}

AlignmentArgIsOne(I) == I.ops[4].kind = "cint" /\ I.ops[4].val = 1

\* Checks of a memory intrinsic call that come before the alignment check.
EarlierCallError(I) ==
  IF I.attrs THEN "bad call attributes"
  ELSE IF I.cc # "C" THEN "bad calling conv"
  ELSE IF \E a \in 1..(Len(I.ops) - 1) :
            ~(\/ isValidScalarOperand(I.ops[a]) \/ isValidVectorOperand(I.ops[a])
              \/ TestedPointerForm(I.ops[a]) \/ I.ops[a].kind = "md")
  THEN "bad intrinsic operand"
  ELSE NoError

\* C4 (as amended): a load or store of an integer type with alignment other
\* than 1, of float with alignment not in {1,4}, or of double with alignment
\* not in {1,8}, is reported as "bad alignment" when it is neither atomic nor
\* volatile and its pointer operand is accepted; otherwise it is reported
\* for the earlier check that fails.  A memcpy/memmove/memset call whose
\* alignment argument is not the constant 1 is reported as "bad alignment"
\* when its attributes, calling convention and operands are accepted, and
\* for the earlier check otherwise.  A load or store with a listed alignment
\* is never reported as "bad alignment".
C4_Alignment ==
  \A p \in Checked :
    LET I == InstAt(p)
        what == IF I.op = "Load" THEN "load" ELSE "store"
    IN
    /\ IsLoadStore(I) /\ IsScalarAccess(AccessType(I))
       /\ ~ListedAlignment(I.align, AccessType(I)) =>
         RejectedWith(p, IF I.atomic THEN "atomic " \o what
                         ELSE IF I.volatile THEN "volatile " \o what
                         ELSE IF ~TestedPointerForm(PointerOperand(I))
                         THEN "bad pointer"
                         ELSE "bad alignment")
    /\ IsLoadStore(I) /\ IsScalarAccess(AccessType(I))
       /\ ListedAlignment(I.align, AccessType(I)) =>
         "bad alignment" \notin ErrorsAt(p)
    /\ IsMemIntrinsicCall(I) /\ ~AlignmentArgIsOne(I) =>
         RejectedWith(p, IF EarlierCallError(I) # NoError THEN EarlierCallError(I)
                         ELSE "bad alignment")
    /\ IsMemIntrinsicCall(I) /\ AlignmentArgIsOne(I) =>
         "bad alignment" \notin ErrorsAt(p)

\* C4 happens: a plain i32 load with alignment 4 through an accepted pointer
\* has been reported as "bad alignment".
C4_Witness ==
  /\ pc = "fn_done"
  /\ \E p \in Checked :
       /\ InstAt(p).op = "Load"
       /\ InstAt(p).ty = I32
       /\ InstAt(p).align = 4
       /\ ~InstAt(p).atomic /\ ~InstAt(p).volatile
       /\ ErrorsAt(p) = {"bad alignment"}

\* C4 as stated: every such load, store or memory intrinsic call is reported
\* as "bad alignment".
C4_AsStated ==
  \A p \in Checked :
    LET I == InstAt(p) IN
    /\ IsLoadStore(I) /\ IsScalarAccess(AccessType(I))
       /\ ~ListedAlignment(I.align, AccessType(I)) =>
         "bad alignment" \in ErrorsAt(p)
    /\ IsMemIntrinsicCall(I) /\ ~AlignmentArgIsOne(I) =>
         "bad alignment" \in ErrorsAt(p)

IsInstructionReport(d) == d.words = <<"disallowed:">>
IsMetadataReport(d) == d.words = <<"has", "disallowed", "instruction", "metadata:">>

\* The metadata kinds of an instruction that are reported: every kind but
\* "dbg", and "dbg" too unless debug metadata is allowed.
ReportedKinds(I) ==
  {k \in DOMAIN I.md : ~(I.md[k] = "dbg" /\ AllowDebugMetadata)}

\* C8 (as amended): while one instruction is processed, at most one
\* diagnostic about the instruction itself (opcode, operands or result type)
\* is added, followed by one diagnostic for each attached metadata kind that
\* is not whitelisted; so an instruction with N such kinds adds N or N+1
\* records.
C8_OnePerPhase ==
  [][(pc = "fn_walk" /\ pc' # "crashed") =>
       LET I == CurrentInst
           n == Len(Errors)
           added == Len(Errors') - n
           N == Cardinality(ReportedKinds(I))
       IN /\ SubSeq(Errors', 1, n) = Errors
          /\ added \in {N, N + 1}
          /\ \A k \in (n + 1)..Len(Errors') :
               IF k = n + 1 /\ added = N + 1
               THEN IsInstructionReport(Errors'[k]) /\ Errors'[k].at = <<BI, II>>
               ELSE IsMetadataReport(Errors'[k]) /\ Errors'[k].name = F.name
     ]_vars

\* C8 happens: a function of one instruction, a rejected getelementptr that
\* carries non-whitelisted metadata, has two diagnostics.
C8_Witness ==
  /\ pc = "fn_done"
  /\ PositionsOf(F) = {<<1, 1>>}
  /\ Len(Errors) = 2
  /\ IsInstructionReport(Errors[1]) /\ Errors[1].at = <<1, 1>>
  /\ IsMetadataReport(Errors[2])

\* C8 as stated: the number of error records added while one instruction is
\* processed is 0 or 1.
C8_AsStated ==
  [][pc = "fn_walk" => Len(Errors') - Len(Errors) \in {0, 1}]_vars

RECURSIVE ExpectedDiags(_, _, _)
ExpectedDiags(f, walk, allow) ==
  IF walk = <<>> THEN <<>>
  ELSE VisitDiags(f.name, f.blocks[Head(walk)[1]][Head(walk)[2]], Head(walk),
                  NoError, allow)
       \o ExpectedDiags(f, Tail(walk), allow)

CheckedInOrder == SelectSeq(WalkFrom(F, 1, 1), LAMBDA p : p \in Checked)

\* C9: the diagnostics are the diagnostics of the instructions checked so
\* far, in block order and, within a block, in instruction order; the walk
\* does not stop at a rejected instruction, so it ends only when every
\* instruction has been checked; checkForFatalErrors has been called once
\* when the pass has returned and not before.
C9_WalkOrder ==
  /\ (pc \in {"fn_walk", "fn_flush", "fn_done"}
      /\ \A p \in PositionsOf(F) : ~ReachesUB(InstAt(p))) =>
       Errors = ExpectedDiags(F, CheckedInOrder, AllowDebugMetadata)
  /\ pc \in {"fn_flush", "fn_done"} => BI > Len(F.blocks)
  /\ pc = "fn_walk" => <<BI, II>> \in PositionsOf(F)
  /\ FatalChecks = (IF pc = "fn_done" THEN 1 ELSE 0)

\* C9 happens: the pass has returned from a function of two blocks whose
\* first instruction was rejected and whose last instruction was reported
\* too.
C9_Witness ==
  /\ pc = "fn_done"
  /\ FatalChecks = 1
  /\ Len(F.blocks) = 2
  /\ Len(Errors) >= 2
  /\ Errors[1].at = <<1, 1>>
  /\ \E k \in DOMAIN Errors : Errors[k].at = <<2, Len(F.blocks[2])>>


IsAtomicIntrinsicCall(I) ==
  I.op = "Call" /\ IsIntrinsicInst(I) /\ getIntrinsicID(I) \in AtomicIntrinsicIDs

\* The call passes the checks made before the atomic parameters are read:
\* no inline assembly, no call attributes, the C calling convention, and
\* every argument an admitted intrinsic operand.
ReachesAtomicChecks(I) ==
  /\ IsAtomicIntrinsicCall(I)
  /\ ~isInlineAsm(I) /\ ~I.attrs /\ I.cc = "C"
  /\ \A a \in 1..(Len(I.ops) - 1) :
       \/ isValidScalarOperand(I.ops[a]) \/ isValidVectorOperand(I.ops[a])
       \/ isNormalizedPtr(I.ops[a]) \/ isaMDNode(I.ops[a])

PositionsOfKind(I, K) ==
  {pos \in DOMAIN AtomicParamType(getIntrinsicID(I)) :
     AtomicParamType(getIntrinsicID(I))[pos] = K}

IsSequentiallyConsistent(V) ==
  isaConstantInt(V) /\ V.val = MemoryOrderSequentiallyConsistent

IsRMWOperation(V) ==
  isaConstantInt(V) /\ V.val > AtomicInvalid /\ V.val < AtomicNum

BadMemoryOrder(I) ==
  \E pos \in PositionsOfKind(I, "Mem") : ~IsSequentiallyConsistent(I.ops[pos])

BadRMWOperation(I) ==
  \E pos \in PositionsOfKind(I, "RMW") : ~IsRMWOperation(I.ops[pos])

\* The verdict the statement gives for an atomic intrinsic call at p.
AtomicVerdictAt(p) ==
  IF BadMemoryOrder(InstAt(p)) THEN RejectedWith(p, "invalid memory order")
  ELSE IF BadRMWOperation(InstAt(p))
       THEN RejectedWith(p, "invalid atomicRMW operation")
  ELSE ReportsAt(p) = {}

\* The parameters are read in order, memory orders first; the read stops at
\* the first parameter that fails.  A constant that is no ConstantInt
\* (undef) is handed to getUniqueInteger when every parameter read before it
\* passed.
IsOtherConstant(V) == isaConstant(V) /\ ~isaConstantInt(V)

OtherConstantRead(I) ==
  \/ \E pos \in PositionsOfKind(I, "Mem") :
       /\ IsOtherConstant(I.ops[pos])
       /\ \A prev \in PositionsOfKind(I, "Mem") :
            prev < pos => IsSequentiallyConsistent(I.ops[prev])
  \/ /\ ~BadMemoryOrder(I)
     /\ \E pos \in PositionsOfKind(I, "RMW") :
          /\ IsOtherConstant(I.ops[pos])
          /\ \A prev \in PositionsOfKind(I, "RMW") : prev < pos => IsRMWOperation(I.ops[prev])

\* C17 (what the code guarantees): an atomic intrinsic call that reaches the
\* parameter checks and hands no constant other than a ConstantInt to
\* getUniqueInteger is rejected with "invalid memory order" when a
\* memory-order parameter is not the constant sequentially-consistent, else
\* with "invalid atomicRMW operation" when an rmw-operation parameter is not
\* a constant strictly between AtomicInvalid and AtomicNum, and is accepted
\* otherwise; the check never crashes on such a call.
C17_DefinedAtomicParameters ==
  /\ \A p \in Checked :
       ReachesAtomicChecks(InstAt(p)) /\ ~OtherConstantRead(InstAt(p)) =>
         AtomicVerdictAt(p)
  /\ pc = "crashed" => OtherConstantRead(CurrentInst) \/ ~IsAtomicIntrinsicCall(CurrentInst)

\* C17 as stated: every atomic intrinsic call that reaches the parameter
\* checks gets the verdict above, whatever its parameters are, and the check
\* of an atomic intrinsic call always ends with a verdict.
C17_AsStated ==
  /\ \A p \in Checked : ReachesAtomicChecks(InstAt(p)) => AtomicVerdictAt(p)
  /\ pc = "crashed" => ~IsAtomicIntrinsicCall(CurrentInst)

\* C17 fails: an atomic load whose memory order is undef has been checked
\* and accepted.
C17_Witness ==
  /\ pc = "fn_done"
  /\ \E p \in Checked :
       /\ InstAt(p).op = "Call"
       /\ getIntrinsicID(InstAt(p)) = "nacl_atomic_load"
       /\ isaUndefValue(InstAt(p).ops[2])
       /\ ReportsAt(p) = {}


BadResultTypeReportsAt(p) ==
  {k \in ReportsAt(p) : Errors[k].detail = "bad result type"}

CheckReportsAt(p) == ReportsAt(p) \ BadResultTypeReportsAt(p)

\* The result types the statement admits, read off the instruction.
IsPointerProducer(I) ==
  I.op \in {"Alloca", "BitCast", "IntToPtr"} \/ (I.op = "Call" /\ IsIntrinsicInst(I))

AdmittedResult(I) ==
  \/ isValidScalarType(I.ty)
  \/ isValidVectorType(I.ty)
  \/ IsPointerProducer(I) /\ isValidPointerType(I.ty)
  \/ I.op = "Alloca"

\* C18: an instruction is reported for the opcode and operand checks exactly
\* when checkInstruction returns an error for it; one that is not is
\* reported as "bad result type", once and with its type, if and only if
\* its result type is neither a valid scalar nor a valid vector type, it is
\* no alloca, bitcast, inttoptr or intrinsic call of a valid pointer type,
\* and it is no alloca at all; one that is reported by those checks is
\* never also reported as "bad result type".
C18_ResultType ==
  \A p \in Checked :
    LET I == InstAt(p) IN
    /\ ~ReachesUB(I) =>
         (CheckReportsAt(p) = {} <=> checkInstruction(I, NoError) = NoError)
    /\ CheckReportsAt(p) # {} => BadResultTypeReportsAt(p) = {}
    /\ CheckReportsAt(p) = {} =>
         IF AdmittedResult(I)
         THEN BadResultTypeReportsAt(p) = {}
         ELSE /\ Cardinality(BadResultTypeReportsAt(p)) = 1
              /\ \A k \in BadResultTypeReportsAt(p) : Errors[k].ty = I.ty

\* C18 happens: an intrinsic call returning an aggregate has passed the call
\* checks and been reported as "bad result type" with its type.
C18_Witness ==
  /\ pc = "fn_done"
  /\ \E p \in Checked :
       /\ InstAt(p).op = "Call" /\ IsIntrinsicInst(InstAt(p))
       /\ checkInstruction(InstAt(p), NoError) = NoError
       /\ \E k \in BadResultTypeReportsAt(p) : Errors[k].ty = InstAt(p).ty


\* The errors checkInstruction and runOnFunction can give once the case of
\* the opcode has been left through its break.
AttributeErrors ==
  {"has \"nuw\" attribute", "has \"nsw\" attribute", "has \"exact\" attribute"}

ErrorsAfterOpcodeCase == {"bad operand", "bad result type"} \cup AttributeErrors

\* The opcodes whose case ends in a break: every admitted opcode but switch
\* and the intrinsic calls.
HasGenericOperandCheck(I) ==
  /\ I.op \in CaseLabels \ (OpcodesOutsidePNaCl \cup {"Switch"})
  /\ ~(I.op = "Call" /\ IsIntrinsicInst(I))

ReachesOperandCheck(p) ==
  HasGenericOperandCheck(InstAt(p)) /\ ErrorsAt(p) \subseteq ErrorsAfterOpcodeCase

\* The operand the opcode's case has checked as a pointer (0: none).
DesignatedPointerOperand(I) ==
  CASE I.op = "Load" -> 1
    [] I.op = "Store" -> 2
    [] I.op = "BitCast" /\ isPointerTy(I.ty) -> 1
    [] I.op = "PtrToInt" -> 1
    [] I.op = "Call" -> Len(I.ops)
    [] OTHER -> 0

AdmittedOperand(V) ==
  \/ V.kind \in {"inst", "arg", "bb"}
  \/ V.kind \in {"cint", "cfp", "undef"} /\ isValidScalarType(V.ty)
  \/ V.kind = "undef" /\ isValidVectorType(V.ty)

OtherOperands(I) == {I.ops[k] : k \in DOMAIN I.ops \ {DesignatedPointerOperand(I)}}

\* C19: an instruction that reaches the generic operand check is rejected
\* with "bad operand" if and only if one of its operands other than the
\* designated pointer operand is neither an instruction result, a function
\* argument, a basic block, a ConstantInt, ConstantFP or undef of a valid
\* scalar type, nor an undef of a valid vector type; no other instruction is
\* rejected with "bad operand".
C19_Operands ==
  \A p \in Checked :
    /\ ReachesOperandCheck(p) =>
         IF \E V \in OtherOperands(InstAt(p)) : ~AdmittedOperand(V)
         THEN RejectedWith(p, "bad operand")
         ELSE "bad operand" \notin ErrorsAt(p)
    /\ "bad operand" \in ErrorsAt(p) => ReachesOperandCheck(p)

\* C19 happens: a constant expression, a global value, a null pointer and a
\* constant vector each make an instruction that reached the operand check
\* "bad operand"; here one of them has.
C19_Witness ==
  /\ pc = "fn_done"
  /\ \E p \in Checked :
       /\ ReachesOperandCheck(p)
       /\ \E V \in OtherOperands(InstAt(p)) :
            V.kind \in {"cexpr", "gvar", "null", "cvec"}
       /\ RejectedWith(p, "bad operand")


WrapOpcodes == {"Add", "Sub", "Mul", "Shl"}
ExactOpcodes == {"UDiv", "SDiv", "LShr", "AShr"}

\* The error of the checks made before the flags are read: the type of the
\* first operand, then the operands.
ErrorBeforeFlags(I) ==
  IF I.ops[1].ty = I1 THEN "arithmetic on i1"
  ELSE IF I.ops[1].ty.k = "vec" /\ I.ops[1].ty.elt = I1
       THEN "arithmetic on vector of i1"
  ELSE IF \E k \in DOMAIN I.ops : ~AdmittedOperand(I.ops[k]) THEN "bad operand"
  ELSE NoError

FlagError(I) ==
  IF I.op \in WrapOpcodes /\ I.nuw THEN "has \"nuw\" attribute"
  ELSE IF I.op \in WrapOpcodes /\ I.nsw THEN "has \"nsw\" attribute"
  ELSE IF I.op \in ExactOpcodes /\ I.exact THEN "has \"exact\" attribute"
  ELSE NoError

\* C20 (as amended): an add, sub, mul, shl, udiv, sdiv, lshr or ashr whose
\* first operand is of type i1 or vector of i1, or one of whose operands
\* fails the operand check, is rejected for that; otherwise one carrying nuw
\* is rejected with 'has "nuw" attribute' (also when it carries nsw too),
\* one carrying nsw alone with 'has "nsw" attribute', one carrying exact
\* with 'has "exact" attribute', and one carrying no flag is accepted when
\* its result type is a valid scalar or vector type and rejected with "bad
\* result type" when it is not.
C20_ArithmeticFlags ==
  \A p \in Checked :
    LET I == InstAt(p) IN
    I.op \in WrapOpcodes \cup ExactOpcodes =>
      IF ErrorBeforeFlags(I) # NoError THEN RejectedWith(p, ErrorBeforeFlags(I))
      ELSE IF FlagError(I) # NoError THEN RejectedWith(p, FlagError(I))
      ELSE IF isValidScalarType(I.ty) \/ isValidVectorType(I.ty)
           THEN ReportsAt(p) = {}
           ELSE RejectedWith(p, "bad result type")

\* C20 happens: an add of two i32 arguments carrying both nuw and nsw has
\* been rejected with 'has "nuw" attribute'.
C20_Witness ==
  /\ pc = "fn_done"
  /\ \E p \in Checked :
       /\ InstAt(p).op = "Add" /\ InstAt(p).nuw /\ InstAt(p).nsw
       /\ InstAt(p).ops = <<Arg(I32), Arg(I32)>>
       /\ RejectedWith(p, "has \"nuw\" attribute")

\* C20 as stated: every such instruction carrying a flag is rejected with
\* the message of the flag.
C20_AsStated ==
  \A p \in Checked :
    FlagError(InstAt(p)) # NoError => RejectedWith(p, FlagError(InstAt(p)))

\* The message of the operand-type test of the integer arithmetic case.
ArithmeticTypeErrors == {"arithmetic on i1", "arithmetic on vector of i1"}

ArithmeticTypeError(Ty) ==
  IF Ty = I1 THEN "arithmetic on i1"
  ELSE IF Ty.k = "vec" /\ Ty.elt = I1 THEN "arithmetic on vector of i1"
  ELSE NoError

IntegerArithmeticOpcodes ==
  {"ICmp", "Add", "Sub", "Mul", "UDiv", "SDiv", "URem", "SRem", "Shl", "LShr", "AShr"}

\* C21: an icmp, add, sub, mul, udiv, sdiv, urem, srem, shl, lshr or ashr
\* whose operand type (the type of its first operand) is i1 is rejected with
\* "arithmetic on i1", and one whose operand type is a vector of i1 with
\* "arithmetic on vector of i1", whatever the shape of its operands and its
\* flags; no other instruction gets either message: not an and, or, xor on
\* i1, and not an icmp or fcmp of other operands whose result is i1.
C21_ArithmeticOnI1 ==
  \A p \in Checked :
    LET I == InstAt(p) IN
    /\ (I.op \in IntegerArithmeticOpcodes /\ ArithmeticTypeError(I.ops[1].ty) # NoError)
         => RejectedWith(p, ArithmeticTypeError(I.ops[1].ty))
    /\ ErrorsAt(p) \cap ArithmeticTypeErrors # {} =>
         /\ I.op \in IntegerArithmeticOpcodes
         /\ ArithmeticTypeError(I.ops[1].ty) # NoError

\* C21 happens: an add on vectors of i1 whose first operand is a constant
\* expression and which carries nuw has been rejected for its type.
C21_Witness ==
  /\ pc = "fn_done"
  /\ \E p \in Checked :
       /\ InstAt(p).op = "Add" /\ InstAt(p).nuw
       /\ InstAt(p).ops[1] = Val("cexpr", V4I1)
       /\ RejectedWith(p, "arithmetic on vector of i1")


\* The values isInherentPtr admits: the result of an alloca, a global
\* variable, alias or function that is not an intrinsic function, and the
\* result of a call of an intrinsic.
InherentOperand(V) ==
  \/ V.kind = "inst" /\ V.op = "Alloca"
  \/ V.kind \in {"gvar", "alias"}
  \/ V.kind = "func" /\ ~V.intr
  \/ V.kind = "inst" /\ V.op = "Call" /\ V.intr

\* C22: an inttoptr whose source type is not i32 is rejected with "non-i32
\* inttoptr" and one whose source type is i32 never is; a ptrtoint whose
\* operand is not an InherentPtr is rejected with "operand not InherentPtr"
\* whatever its result type, a ptrtoint of an InherentPtr whose result type
\* is not i32 is rejected with "non-i32 ptrtoint", and a ptrtoint of an
\* InherentPtr to i32 gets neither message; no other instruction gets
\* "non-i32 inttoptr" or "non-i32 ptrtoint".
C22_PointerIntegerConversions ==
  \A p \in Checked :
    LET I == InstAt(p) IN
    /\ I.op = "IntToPtr" =>
         IF I.ops[1].ty # I32 THEN RejectedWith(p, "non-i32 inttoptr")
         ELSE "non-i32 inttoptr" \notin ErrorsAt(p)
    /\ I.op = "PtrToInt" =>
         IF ~InherentOperand(I.ops[1]) THEN RejectedWith(p, "operand not InherentPtr")
         ELSE IF I.ty # I32 THEN RejectedWith(p, "non-i32 ptrtoint")
         ELSE ErrorsAt(p) \cap {"operand not InherentPtr", "non-i32 ptrtoint"} = {}
    /\ "non-i32 inttoptr" \in ErrorsAt(p) => I.op = "IntToPtr"
    /\ "non-i32 ptrtoint" \in ErrorsAt(p) => I.op = "PtrToInt"

\* C22 happens: a ptrtoint to i64 of a function argument has been rejected
\* for its operand, not for its width.
C22_Witness ==
  /\ pc = "fn_done"
  /\ \E p \in Checked :
       /\ InstAt(p).op = "PtrToInt" /\ InstAt(p).ty = I64
       /\ InstAt(p).ops[1] = Arg(P(I8))
       /\ RejectedWith(p, "operand not InherentPtr")


\* The casts whose operand must be an InherentPtr.
CastOfInherentPtr(I) == I.op = "PtrToInt" \/ (I.op = "BitCast" /\ I.ty.k = "ptr")

\* C23: a ptrtoint, and a bitcast whose result is a pointer, is rejected with
\* "operand not InherentPtr" when its operand is neither the result of an
\* alloca, nor a global value that is not an intrinsic function, nor the
\* result of an intrinsic call (so for an intrinsic function, the result of
\* a bitcast or an inttoptr, and a function argument), and does not get that
\* message when its operand is one of these; no other instruction gets the
\* message, in particular no bitcast whose result is not a pointer.
C23_InherentPtrCasts ==
  \A p \in Checked :
    LET I == InstAt(p) IN
    /\ CastOfInherentPtr(I) =>
         IF InherentOperand(I.ops[1])
         THEN "operand not InherentPtr" \notin ErrorsAt(p)
         ELSE RejectedWith(p, "operand not InherentPtr")
    /\ "operand not InherentPtr" \in ErrorsAt(p) => CastOfInherentPtr(I)

\* C23 happens: a bitcast of the intrinsic function llvm.trap to i32* has
\* been rejected with "operand not InherentPtr".
C23_Witness ==
  /\ pc = "fn_done"
  /\ \E p \in Checked :
       /\ InstAt(p).op = "BitCast" /\ InstAt(p).ty = P(I32)
       /\ InstAt(p).ops[1] = IntrinsicFuncVal(P(VoidFnTy), "trap")
       /\ RejectedWith(p, "operand not InherentPtr")


\* The messages of the three checks every call starts with.
CallEntryErrors == {"inline assembly", "bad call attributes", "bad calling conv"}

CallEntryError(I) ==
  IF Callee(I).kind = "asm" THEN "inline assembly"
  ELSE IF I.attrs THEN "bad call attributes"
  ELSE IF I.cc # "C" THEN "bad calling conv"
  ELSE NoError

\* C24: a call, of an intrinsic or not, is rejected with "inline assembly"
\* if its callee is inline assembly, else with "bad call attributes" if it
\* carries attributes, else with the calling-convention error if its calling
\* convention is not C, whatever its arguments and its callee are; a call
\* that passes the three gets none of these messages, and then, if it is
\* not an intrinsic call, it is rejected with "bad function callee operand"
\* exactly when its last operand is not a NormalizedPtr.  An intrinsic call
\* never gets that message.  A direct call of a function named llvm.* that
\* has no intrinsic ID is an intrinsic call or not as IntrinsicInst::classof
\* of the library says: it gets the message exactly when it is not.
C24_CallChecks ==
  \A p \in Checked :
    LET I == InstAt(p) IN
    I.op = "Call" =>
      IF CallEntryError(I) # NoError THEN RejectedWith(p, CallEntryError(I))
      ELSE /\ ErrorsAt(p) \cap CallEntryErrors = {}
           /\ IF IsPlainCall(I) /\ ~TestedPointerForm(Callee(I))
              THEN RejectedWith(p, "bad function callee operand")
              ELSE "bad function callee operand" \notin ErrorsAt(p)
           /\ CalleeWithoutID(I) =>
                (RejectedWith(p, "bad function callee operand") <=> ~I.byName)

\* C24 happens: a call of llvm.memcpy that carries attributes, has another
\* calling convention and a constant expression as destination has been
\* rejected with "bad call attributes".
C24_Witness ==
  /\ pc = "fn_done"
  /\ \E p \in Checked :
       /\ InstAt(p).op = "Call" /\ IsIntrinsicInst(InstAt(p))
       /\ InstAt(p).attrs /\ InstAt(p).cc = "fastcc"
       /\ InstAt(p).ops[1] = Val("cexpr", P(I8))
       /\ RejectedWith(p, "bad call attributes")


\* The alignment rule for the type a load or store accesses.
AccessElementBits(Ty) ==
  CASE Ty.elt.k = "int" -> Ty.elt.w
    [] Ty.elt.k = "float" -> 32
    [] Ty.elt.k = "double" -> 64

AccessAlignmentAllowed(I) ==
  IF AccessType(I).k = "vec"
  THEN AccessType(I).elt # I1 /\ I.align * 8 = AccessElementBits(AccessType(I))
  ELSE ListedAlignment(I.align, AccessType(I))

LoadOrStore(I) == IF I.op = "Load" THEN "load" ELSE "store"

\* The first failing check of a load or store, in the order atomic,
\* volatile, pointer form, alignment, operand shape.
FirstAccessError(I) ==
  IF I.atomic THEN "atomic " \o LoadOrStore(I)
  ELSE IF I.volatile THEN "volatile " \o LoadOrStore(I)
  ELSE IF ~TestedPointerForm(PointerOperand(I)) THEN "bad pointer"
  ELSE IF ~AccessAlignmentAllowed(I) THEN "bad alignment"
  ELSE IF \E V \in OtherOperands(I) : ~AdmittedOperand(V) THEN "bad operand"
  ELSE NoError

\* C27: a load or store is reported with the message of the first check it
\* fails in the order atomic, volatile, pointer form, alignment, operand
\* shape, and with that message only: an atomic one as "atomic load" /
\* "atomic store" and a volatile one that is not atomic as "volatile load" /
\* "volatile store" whatever its pointer and its alignment are, and "bad
\* alignment" is reported only for one whose pointer operand is a
\* NormalizedPtr.  One that fails none of them can only be reported for its
\* result type.
C27_LoadStoreOrder ==
  \A p \in Checked :
    LET I == InstAt(p) IN
    IsLoadStore(I) =>
      /\ IF FirstAccessError(I) # NoError
         THEN RejectedWith(p, FirstAccessError(I))
         ELSE ErrorsAt(p) \subseteq {"bad result type"}
      /\ "bad alignment" \in ErrorsAt(p) => TestedPointerForm(PointerOperand(I))

\* C27 happens: a load that is atomic and volatile, through a function
\* argument and without alignment, has been reported as "atomic load".
C27_Witness ==
  /\ pc = "fn_done"
  /\ \E p \in Checked :
       /\ InstAt(p).op = "Load" /\ InstAt(p).atomic /\ InstAt(p).volatile
       /\ InstAt(p).ops[1].kind = "arg" /\ InstAt(p).align = 0
       /\ RejectedWith(p, "atomic load")


\* The attached kinds that are not whitelisted, in the order of attachment.
KindsToReport(I) ==
  SelectSeq(I.md, LAMBDA kind : ~(kind = "dbg" /\ AllowDebugMetadata))

\* C29: while one instruction is processed the Reporter gets the
\* instruction's own diagnostic, if it has one, and then one "has disallowed
\* instruction metadata" diagnostic naming each attached kind that is not
\* whitelisted, in the order of attachment, whether or not the instruction
\* itself was reported; the records already there are kept, so these come
\* before any diagnostic of the next instruction.
C29_MetadataReports ==
  [][(pc = "fn_walk" /\ pc' # "crashed") =>
       LET I == CurrentInst
           n == Len(Errors)
           added == SubSeq(Errors', n + 1, Len(Errors'))
           own == SelectSeq(added, IsInstructionReport)
           md == SelectSeq(added, IsMetadataReport)
       IN /\ Len(Errors') >= n
          /\ SubSeq(Errors', 1, n) = Errors
          /\ added = own \o md
          /\ Len(own) <= 1
          /\ \A k \in DOMAIN own : own[k].at = <<BI, II>>
          /\ Len(md) = Len(KindsToReport(I))
          /\ \A k \in DOMAIN md :
               /\ md[k].subject = "Function " /\ md[k].name = F.name
               /\ md[k].detail = "!" \o KindsToReport(I)[k]
     ]_vars

\* C29 happens: a rejected instruction carrying !tbaa was followed by another
\* rejected instruction; the Reporter holds the diagnostic of the first, its
\* metadata diagnostic, and then the diagnostic of the second.
C29_Witness ==
  /\ pc = "fn_done"
  /\ Len(Errors) = 3
  /\ IsInstructionReport(Errors[1]) /\ Errors[1].at = <<1, 1>>
  /\ IsMetadataReport(Errors[2]) /\ Errors[2].detail = "!tbaa"
  /\ IsInstructionReport(Errors[3]) /\ Errors[3].at # <<1, 1>>


(***************************************************************************)
(* Properties of the module pass, checked under SpecModule.                *)
(*                                                                         *)
(* The symbols of a module have distinct names, so a diagnostic is         *)
(* attributed to the symbol it names.                                      *)
(***************************************************************************)
AfterLoop(loop) ==
  CASE loop = "mod_globals" ->
         {"mod_aliases", "mod_functions", "mod_namedmd", "mod_finish", "mod_done"}
    [] loop = "mod_aliases" ->
         {"mod_functions", "mod_namedmd", "mod_finish", "mod_done"}
    [] loop = "mod_functions" -> {"mod_namedmd", "mod_finish", "mod_done"}
    [] loop = "mod_namedmd" -> {"mod_finish", "mod_done"}

\* The indexes of the list of a loop whose iteration has finished.
Done(loop) ==
  IF pc = loop THEN 1..(MI - 1)
  ELSE IF pc \in AfterLoop(loop) THEN DOMAIN ListOf(M, loop)
  ELSE {}

Reports(subject, name, words) ==
  {k \in DOMAIN Errors : /\ Errors[k].subject = subject
                         /\ Errors[k].name = name
                         /\ Errors[k].words = words}

ModuleReports(words) == Reports("", "", words)

NoEntryPointWords == <<"Module", "has", "no", "entry", "point", "(disallowed)">>
MultipleEntryPointsWords ==
  <<"Module", "has", "multiple", "entry", "points", "(disallowed)">>

AdmissibleEntries(m) ==
  {<<"gvar", i>> : i \in {j \in DOMAIN m.globals :
                            /\ m.globals[j].linkage = "ExternalLinkage"
                            /\ m.globals[j].name = "__pnacl_pso_root"}}
  \cup {<<"func", i>> : i \in {j \in DOMAIN m.functions :
                                 /\ m.functions[j].linkage = "ExternalLinkage"
                                 /\ m.functions[j].name = "_start"}}

\* C2: when runOnModule has returned, a module with exactly one admissible
\* entry symbol has neither "Module has no entry point" nor "Module has
\* multiple entry points"; one with none has "Module has no entry point";
\* one with two has "Module has multiple entry points".
C2_EntryPoint ==
  pc = "mod_done" =>
    LET n == Cardinality(AdmissibleEntries(M)) IN
    /\ n = 1 => /\ ModuleReports(NoEntryPointWords) = {}
                /\ ModuleReports(MultipleEntryPointsWords) = {}
    /\ n = 0 => /\ Cardinality(ModuleReports(NoEntryPointWords)) = 1
                /\ ModuleReports(MultipleEntryPointsWords) = {}
    /\ n = 2 => /\ ModuleReports(NoEntryPointWords) = {}
                /\ Cardinality(ModuleReports(MultipleEntryPointsWords)) = 1

\* C2 happens: a module with an external __pnacl_pso_root variable and an
\* external _start function has been reported for multiple entry points.
C2_Witness ==
  /\ pc = "mod_done"
  /\ Cardinality(AdmissibleEntries(M)) = 2
  /\ ModuleReports(MultipleEntryPointsWords) # {}

VariableAttributes ==
  {"section", "thread_local", "visibility", "addrspace", "unnamed_addr",
   "externally_initialized"}

HasAttribute(GV, attr) ==
  CASE attr = "section" -> GV.hasSection
    [] attr = "thread_local" -> GV.isThreadLocal
    [] attr = "visibility" -> GV.visibility # "DefaultVisibility"
    [] attr = "addrspace" -> GV.addrspace # 0
    [] attr = "unnamed_addr" -> GV.hasUnnamedAddr
    [] attr = "externally_initialized" -> GV.isExternallyInitialized
    [] attr = "gc" -> GV.hasGC
    [] attr = "align" -> GV.align # 0
    [] attr = "cc" -> GV.cc # "C"
    [] attr = "attributes" -> GV.hasAttributes

\* The wording of the diagnostic of each attribute.
AttributeWords(attr) ==
  CASE attr = "visibility" -> <<"has", "disallowed", "visibility:">>
    [] attr = "addrspace" -> <<"has", "addrspace", "attribute", "(disallowed)">>
    [] attr = "cc" -> <<"has", "disallowed", "calling", "convention:">>
    [] attr = "attributes" -> <<"has", "disallowed", "attributes:">>
    [] OTHER -> <<"has", "disallowed", "\"" \o attr \o "\"", "attribute">>

\* The word by which a diagnostic names the attribute.
AttributeWord(attr) ==
  CASE attr = "visibility" -> "visibility:"
    [] attr = "addrspace" -> "addrspace"
    [] OTHER -> "\"" \o attr \o "\""

Words(d) == {d.words[i] : i \in DOMAIN d.words}

\* C5 (as amended): for every global variable and every attribute among
\* section, thread_local, non-default visibility, non-zero address space,
\* unnamed_addr and externally_initialized, the variable gets exactly one
\* diagnostic "Variable NAME ..." for the attribute when it carries it and
\* none otherwise, independently of the other attributes.  The diagnostic
\* reads "has disallowed ..." for all of them but the address space, whose
\* diagnostic reads "has addrspace attribute (disallowed)"; the diagnostic
\* of the visibility names the visibility.
C5_VariableAttributes ==
  \A i \in Done("mod_globals") : \A attr \in VariableAttributes :
    LET GV == M.globals[i]
        reports == Reports("Variable ", GV.name, AttributeWords(attr))
    IN /\ Cardinality(reports) = (IF HasAttribute(GV, attr) THEN 1 ELSE 0)
       /\ attr = "visibility" =>
            \A k \in reports :
              Errors[k].detail = (IF GV.visibility = "HiddenVisibility"
                                  THEN "hidden" ELSE "protected")

\* C5 happens: a variable carrying all six attributes has six diagnostics
\* "Variable NAME ...".
C5_Witness ==
  /\ pc = "mod_done"
  /\ \E i \in DOMAIN M.globals :
       /\ \A attr \in VariableAttributes : HasAttribute(M.globals[i], attr)
       /\ Cardinality({k \in DOMAIN Errors :
                         /\ Errors[k].subject = "Variable "
                         /\ Errors[k].name = M.globals[i].name}) = 6

\* C5 as stated: each attribute a variable carries yields a diagnostic of the
\* form "Variable NAME has disallowed ..." that names the attribute.
C5_AsStated ==
  \A i \in Done("mod_globals") : \A attr \in VariableAttributes :
    HasAttribute(M.globals[i], attr) =>
      \E k \in DOMAIN Errors :
        /\ Errors[k].subject = "Variable "
        /\ Errors[k].name = M.globals[i].name
        /\ SubSeq(Errors[k].words, 1, 2) = <<"has", "disallowed">>
        /\ AttributeWord(attr) \in Words(Errors[k])

AllFunctionAttributes == {"section", "gc", "align", "addrspace"}
DefinedFunctionAttributes == {"cc", "attributes"}

\* C6 (as amended): a function gets exactly one diagnostic "Function NAME
\* ..." for each of section, gc, explicit alignment and non-zero address
\* space that it carries, whether it is an intrinsic or not, and none for
\* those it does not carry; it gets one for a non-default calling convention
\* and one for a non-empty attribute set only when it is not an intrinsic:
\* an intrinsic gets neither.
C6_FunctionAttributes ==
  \A i \in Done("mod_functions") :
    LET Fn == M.functions[i] IN
    /\ \A attr \in AllFunctionAttributes :
         Cardinality(Reports("Function ", Fn.name, AttributeWords(attr)))
           = (IF HasAttribute(Fn, attr) THEN 1 ELSE 0)
    /\ \A attr \in DefinedFunctionAttributes :
         Cardinality(Reports("Function ", Fn.name, AttributeWords(attr)))
           = (IF HasAttribute(Fn, attr) /\ ~Fn.isIntrinsic THEN 1 ELSE 0)

\* C6 happens: an intrinsic carrying section, gc, alignment and address
\* space has the four diagnostics, and a function that is no intrinsic
\* would also have those of the calling convention and the attributes.
C6_Witness ==
  /\ pc = "mod_done"
  /\ \E i \in DOMAIN M.functions :
       /\ M.functions[i].isIntrinsic
       /\ \A attr \in AllFunctionAttributes \cup DefinedFunctionAttributes :
            HasAttribute(M.functions[i], attr)
       /\ \A attr \in AllFunctionAttributes :
            Reports("Function ", M.functions[i].name, AttributeWords(attr)) # {}

\* C6 as stated: each of the six attributes a function carries yields its
\* diagnostic, for every function.
C6_AsStated ==
  \A i \in Done("mod_functions") :
    \A attr \in AllFunctionAttributes \cup DefinedFunctionAttributes :
      HasAttribute(M.functions[i], attr) =>
        Reports("Function ", M.functions[i].name, AttributeWords(attr)) # {}

\* The specification's flattened shapes, read off the constant.
RefersToGlobal(C) ==
  /\ C.kind = "cexpr" /\ C.op = "PtrToInt"
  /\ Len(C.ops) = 1
  /\ C.ops[1].kind \in {"gvar", "func", "alias"}

SimpleElementShape(C) ==
  \/ /\ C.ty.k = "array" /\ C.ty.elt = I8
     /\ C.kind \in {"cda", "caz"}
  \/ /\ C.ty = I32
     /\ \/ RefersToGlobal(C)
        \/ /\ C.kind = "cexpr" /\ C.op = "Add"
           /\ RefersToGlobal(C.ops[1])
           /\ C.ops[2].kind = "cint"

CompoundElementShape(C) ==
  /\ C.kind = "cstruct"
  /\ C.ty.packed /\ ~C.ty.named
  /\ Len(C.ops) >= 2
  /\ \A i \in DOMAIN C.ops : SimpleElementShape(C.ops[i])

NoInitializerWords == <<"has", "no", "initializer", "(disallowed)">>
NonFlattenedWords == <<"has", "non-flattened", "initializer", "(disallowed):">>

\* C7: a global variable with an initializer gets no diagnostic about the
\* initializer exactly when the initializer is a SimpleElement or a
\* CompoundElement, and one "has non-flattened initializer" diagnostic
\* otherwise; a variable without initializer gets one "has no initializer"
\* diagnostic and no "has non-flattened initializer".
C7_Flattened ==
  \A i \in Done("mod_globals") :
    LET GV == M.globals[i]
        none == Cardinality(Reports("Global variable ", GV.name, NoInitializerWords))
        nonflat == Cardinality(Reports("Global variable ", GV.name, NonFlattenedWords))
    IN IF ~GV.hasInitializer THEN none = 1 /\ nonflat = 0
       ELSE IF SimpleElementShape(GV.init) \/ CompoundElementShape(GV.init)
       THEN none = 0 /\ nonflat = 0
       ELSE none = 0 /\ nonflat = 1

\* C7 happens: a variable initialized with a packed unnamed struct of two
\* SimpleElements has been checked without a diagnostic about its
\* initializer.
C7_Witness ==
  /\ pc = "mod_done"
  /\ \E i \in DOMAIN M.globals :
       /\ M.globals[i].hasInitializer
       /\ M.globals[i].init.kind = "cstruct"
       /\ CompoundElementShape(M.globals[i].init)
       /\ Reports("Global variable ", M.globals[i].name, NonFlattenedWords) = {}

\* The loop a diagnostic comes from, by what it is about: 0 for the inline
\* assembly of the module, 1 for a global variable, 2 for an alias, 3 for a
\* function, 4 for named metadata, 5 for the missing entry point.  "Module
\* has multiple entry points" names no symbol and is left out.
GlobalNames == {M.globals[i].name : i \in DOMAIN M.globals}
IndexOfGlobal(name) == CHOOSE i \in DOMAIN M.globals : M.globals[i].name = name
FunctionNames == {M.functions[i].name : i \in DOMAIN M.functions}
IndexOfFunction(name) == CHOOSE i \in DOMAIN M.functions : M.functions[i].name = name

Ranked(d) == d.words # MultipleEntryPointsWords

Rank(d) ==
  CASE d.words = NoEntryPointWords -> 5
    [] d.subject = "Named metadata node " -> 4
    [] d.subject = "Function " -> 3
    [] d.subject = "Variable " /\ d.words = <<"is", "an", "alias", "(disallowed)">> -> 2
    [] d.subject \in {"Variable ", "Global variable "} -> 1
    [] d.subject = "" /\ d.name \in GlobalNames -> 1
    [] d.subject = "" /\ d.name \in FunctionNames -> 3
    [] OTHER -> 0

\* The position of the symbol in its list, for the declaration order.
Declared(d) ==
  IF Rank(d) = 1 THEN IndexOfGlobal(d.name)
  ELSE IF Rank(d) = 3 THEN IndexOfFunction(d.name)
  ELSE 0

\* C10: the diagnostics about global variables, in declaration order, come
\* before those about aliases, which come before those about functions (in
\* declaration order), which come before those about named metadata; "Module
\* has no entry point" comes after all of them, and checkForFatalErrors has
\* not been called before the diagnostics are complete.
C10_ModuleOrder ==
  /\ \A j, k \in DOMAIN Errors :
       (j < k /\ Ranked(Errors[j]) /\ Ranked(Errors[k])) =>
         \/ Rank(Errors[j]) < Rank(Errors[k])
         \/ /\ Rank(Errors[j]) = Rank(Errors[k])
            /\ Declared(Errors[j]) <= Declared(Errors[k])
  /\ \A k \in DOMAIN Errors :
       Errors[k].words = NoEntryPointWords => k = Len(Errors) /\ pc = "mod_done"
  /\ FatalChecks = (IF pc = "mod_done" THEN 1 ELSE 0)

\* C10 happens: a run has reported a global variable, an alias, a function,
\* a named metadata node and the missing entry point.
C10_Witness ==
  /\ pc = "mod_done"
  /\ FatalChecks = 1
  /\ {Rank(Errors[k]) : k \in DOMAIN Errors} = {1, 2, 3, 4, 5}


DisallowedIntrinsicWords == <<"is", "a", "disallowed", "LLVM", "intrinsic">>

\* The two admission conditions of an intrinsic, read off the declaration.
RegisteredWithSignature(Fn) ==
  \E e \in AllowedIntrinsics :
    /\ Fn.name = IntrinsicGetName(e[1], e[2])
    /\ Fn.fty = IntrinsicGetType(e[1], e[2])

IsDebugIntrinsic(Fn) == Fn.name \in {"llvm.dbg.declare", "llvm.dbg.value"}

\* C11: a function marked as intrinsic that the module pass has checked has
\* no "is a disallowed LLVM intrinsic" diagnostic if and only if its name is
\* a registry entry and its type is the registered signature, or it is
\* dbg.declare or dbg.value and allow-debug-metadata is set; every other
\* intrinsic has exactly one, and a function that is no intrinsic has none.
C11_IntrinsicAdmission ==
  \A i \in Done("mod_functions") :
    LET Fn == M.functions[i]
        n == Cardinality(Reports("Function ", Fn.name, DisallowedIntrinsicWords))
    IN IF Fn.isIntrinsic
       THEN IF \/ RegisteredWithSignature(Fn)
               \/ IsDebugIntrinsic(Fn) /\ AllowDebugMetadata
            THEN n = 0
            ELSE n = 1
       ELSE n = 0

\* C11 happens: llvm.trap declared with a type other than the registered
\* one has been reported as a disallowed intrinsic.
C11_Witness ==
  /\ pc = "mod_done"
  /\ \E i \in DOMAIN M.functions :
       /\ M.functions[i].isIntrinsic
       /\ M.functions[i].name = "llvm.trap"
       /\ M.functions[i].fty # IntrinsicGetType("trap", <<>>)
       /\ Reports("Function ", "llvm.trap", DisallowedIntrinsicWords) # {}


NotValidExternalWords ==
  <<"is", "not", "a", "valid", "external", "symbol", "(disallowed)">>

ModulePassLabels ==
  {"mod_globals", "mod_aliases", "mod_functions", "mod_namedmd", "mod_finish",
   "mod_done"}

\* The admissible entries among the symbols whose check has finished.
AdmissibleEntriesDone ==
  {e \in AdmissibleEntries(M) :
     \/ e[1] = "gvar" /\ e[2] \in Done("mod_globals")
     \/ e[1] = "func" /\ e[2] \in Done("mod_functions")}

\* C12: an externally linked global variable not named __pnacl_pso_root, and
\* an externally linked non-intrinsic function not named _start, has exactly
\* one diagnostic "NAME is not a valid external symbol (disallowed)", and
\* every other symbol has none; the seen-entry-point flag is set exactly when
\* an admissible entry (external function _start, external variable
\* __pnacl_pso_root) has been checked, so the invalid symbols leave it alone;
\* a module without admissible entry ends with "Module has no entry point".
C12_InvalidExternalSymbols ==
  /\ \A i \in Done("mod_globals") :
       LET GV == M.globals[i] IN
       Cardinality(Reports("", GV.name, NotValidExternalWords))
         = (IF GV.linkage = "ExternalLinkage" /\ GV.name # "__pnacl_pso_root"
            THEN 1 ELSE 0)
  /\ \A i \in Done("mod_functions") :
       LET Fn == M.functions[i] IN
       Cardinality(Reports("", Fn.name, NotValidExternalWords))
         = (IF Fn.linkage = "ExternalLinkage" /\ ~Fn.isIntrinsic
               /\ Fn.name # "_start"
            THEN 1 ELSE 0)
  /\ pc \in ModulePassLabels => (SeenEntryPoint <=> AdmissibleEntriesDone # {})
  /\ pc = "mod_done" /\ AdmissibleEntries(M) = {} =>
       Cardinality(ModuleReports(NoEntryPointWords)) = 1

\* C12 happens: a module whose external symbols are a variable named _start
\* and a function named __pnacl_pso_root has both reported as invalid
\* external symbols and has no entry point.
C12_Witness ==
  /\ pc = "mod_done"
  /\ \E i \in DOMAIN M.globals :
       M.globals[i].name = "_start" /\ M.globals[i].linkage = "ExternalLinkage"
  /\ \E j \in DOMAIN M.functions :
       /\ M.functions[j].name = "__pnacl_pso_root"
       /\ M.functions[j].linkage = "ExternalLinkage"
  /\ Reports("", "_start", NotValidExternalWords) # {}
  /\ Reports("", "__pnacl_pso_root", NotValidExternalWords) # {}
  /\ ~SeenEntryPoint
  /\ ModuleReports(NoEntryPointWords) # {}



DeclaredNotDefinedWords ==
  <<"is", "declared", "but", "not", "defined", "(disallowed)">>

NotDeclaredReport(d) == d.words # DeclaredNotDefinedWords

\* What runOnModule leaves in the Reporter for module m under the given
\* options, computed loop by loop.
RECURSIVE GlobalsOutcome(_, _)
GlobalsOutcome(globals, acc) ==
  IF globals = <<>> THEN acc
  ELSE GlobalsOutcome(Tail(globals),
         Outcome(acc.errs \o GlobalDiags(Head(globals), acc.seen),
                 checkGlobalVariable(Head(globals), acc.seen).seen))

RECURSIVE FunctionsOutcome(_, _, _, _)
FunctionsOutcome(functions, acc, streaming, allow) ==
  IF functions = <<>> THEN acc
  ELSE LET r == checkFunction(Head(functions), acc.seen, streaming, allow)
       IN FunctionsOutcome(Tail(functions),
                           Outcome(acc.errs \o r.errs, r.seen), streaming, allow)

RECURSIVE AliasesDiags(_)
AliasesDiags(aliases) ==
  IF aliases = <<>> THEN <<>>
  ELSE <<Diag("Variable ", Head(aliases), <<"is", "an", "alias", "(disallowed)">>,
              "", NoTy, NoAt)>> \o AliasesDiags(Tail(aliases))

RECURSIVE NamedMDDiags(_, _)
NamedMDDiags(namedMD, allow) ==
  IF namedMD = <<>> THEN <<>>
  ELSE (IF ~isWhitelistedMetadata(Head(namedMD), allow)
        THEN <<Diag("Named metadata node ", Head(namedMD), <<"is", "disallowed">>,
                    "", NoTy, NoAt)>>
        ELSE <<>>) \o NamedMDDiags(Tail(namedMD), allow)

ModuleOutcome(m, streaming, allow) ==
  LET g == GlobalsOutcome(m.globals, Outcome(InlineAsmDiags(m), FALSE))
      f == FunctionsOutcome(m.functions,
                            Outcome(g.errs \o AliasesDiags(m.aliases), g.seen),
                            streaming, allow)
  IN Outcome(f.errs \o NamedMDDiags(m.namedMD, allow)
             \o (IF ~f.seen THEN <<NoEntryPointDiag>> ELSE <<>>),
             f.seen)

\* C14: a checked function that is no intrinsic and has no body has exactly
\* one diagnostic "is declared but not defined (disallowed)" when
\* streaming-mode is false and none when it is true, and no other function
\* has one; when runOnModule has returned, the other diagnostics and the
\* seen-entry-point flag are those the module gets under the opposite
\* setting of streaming-mode.
C14_StreamingMode ==
  /\ \A i \in Done("mod_functions") :
       LET Fn == M.functions[i] IN
       Cardinality(Reports("Function ", Fn.name, DeclaredNotDefinedWords))
         = (IF ~Fn.isIntrinsic /\ Fn.isDeclaration /\ ~StreamingMode
            THEN 1 ELSE 0)
  /\ pc = "mod_done" =>
       LET other == ModuleOutcome(M, ~StreamingMode, AllowDebugMetadata) IN
       /\ SelectSeq(Errors, NotDeclaredReport)
            = SelectSeq(other.errs, NotDeclaredReport)
       /\ SeenEntryPoint = other.seen

\* C14 happens: in streaming mode a declaration carrying attributes has been
\* checked; it is reported for the attributes and not for the missing body.
C14_Witness ==
  /\ pc = "mod_done"
  /\ StreamingMode
  /\ \E i \in DOMAIN M.functions :
       LET Fn == M.functions[i] IN
       /\ ~Fn.isIntrinsic /\ Fn.isDeclaration /\ Fn.hasAttributes
       /\ Reports("Function ", Fn.name, DeclaredNotDefinedWords) = {}
       /\ Reports("Function ", Fn.name, AttributeWords("attributes")) # {}


\* The module with the align attribute taken off its global variables.
WithoutVariableAlignment(m) ==
  [m EXCEPT !.globals = [i \in DOMAIN m.globals |->
                           [m.globals[i] EXCEPT !.align = 0]]]

NamesVariable(d, name) ==
  d.name = name /\ (d.subject = "Variable " \/ d.subject = "")

\* C16: when runOnModule has returned, the diagnostics are exactly those of
\* the module whose global variables have no align attribute, so a variable
\* that is accepted without the attribute is accepted with it; no
\* diagnostic about a variable mentions its alignment.
C16_VariableAlignment ==
  /\ pc = "mod_done" =>
       Errors = ModuleOutcome(WithoutVariableAlignment(M), StreamingMode,
                              AllowDebugMetadata).errs
  /\ \A k \in DOMAIN Errors :
       Errors[k].subject = "Variable " => "\"align\"" \notin Words(Errors[k])

\* C16 happens: a variable with an explicit alignment and nothing else to
\* report has been checked, and no diagnostic names it.
C16_Witness ==
  /\ pc = "mod_done"
  /\ \E i \in DOMAIN M.globals :
       /\ M.globals[i].align # 0
       /\ GlobalDiags([M.globals[i] EXCEPT !.align = 0], FALSE) = <<>>
       /\ \A k \in DOMAIN Errors : ~NamesVariable(Errors[k], M.globals[i].name)

IsEntryPointRecord(d) ==
  d.subject = "" /\ d.words \in {NoEntryPointWords, MultipleEntryPointsWords}

EntryPointRecords(s) == SelectSeq(s, IsEntryPointRecord)

\* An admitted intrinsic, declared with nothing but its name and type.
AdmittedIntrinsicDeclaration(Fn) ==
  /\ Fn.isIntrinsic
  /\ RegisteredWithSignature(Fn) \/ (IsDebugIntrinsic(Fn) /\ AllowDebugMetadata)
  /\ Fn = IntrinsicFunction(Fn.name, Fn.iid, Fn.fty)

\* The module without some of its functions.
WithoutFunctions(m, Dropped(_)) ==
  [m EXCEPT !.functions = SelectSeq(m.functions, LAMBDA f : ~Dropped(f))]

IsIntrinsicFunction(Fn) == Fn.isIntrinsic

\* C30: an intrinsic function never gets "is not a valid external symbol";
\* when runOnModule has returned, the seen-entry-point flag and the
\* diagnostics "Module has no entry point" and "Module has multiple entry
\* points" are those of the module without its intrinsic functions, and the
\* Reporter holds exactly the diagnostics of the module without its admitted
\* intrinsic declarations.
C30_IntrinsicsAreNoEntryPoints ==
  /\ \A i \in Done("mod_functions") :
       M.functions[i].isIntrinsic =>
         Reports("", M.functions[i].name, NotValidExternalWords) = {}
  /\ pc = "mod_done" =>
       LET plain == ModuleOutcome(WithoutFunctions(M, IsIntrinsicFunction),
                                  StreamingMode, AllowDebugMetadata)
           other == ModuleOutcome(WithoutFunctions(M, AdmittedIntrinsicDeclaration),
                                  StreamingMode, AllowDebugMetadata)
       IN /\ SeenEntryPoint = plain.seen
          /\ EntryPointRecords(Errors) = EntryPointRecords(plain.errs)
          /\ Errors = other.errs

\* C30 happens: runOnModule has returned on a module that declares two
\* admitted intrinsics beside its external _start function, without any
\* diagnostic.
C30_Witness ==
  /\ pc = "mod_done"
  /\ Len(M.functions) = 3
  /\ Cardinality({i \in DOMAIN M.functions :
                    AdmittedIntrinsicDeclaration(M.functions[i])}) = 2
  /\ Cardinality(AdmissibleEntries(M)) = 1
  /\ SeenEntryPoint
  /\ Errors = <<>>


(***************************************************************************)
(* Properties of both passes, checked under SpecPasses.                    *)
(***************************************************************************)
NamedMetadataWords == <<"is", "disallowed">>

\* The attachments of kind Kind on the instructions checked so far.
AttachmentsOf(Kind) ==
  {a \in UNION {{<<p, k>> : k \in DOMAIN InstAt(p).md} : p \in Checked} :
     InstAt(a[1]).md[a[2]] = Kind}

AttachedKinds ==
  UNION {{InstAt(p).md[k] : k \in DOMAIN InstAt(p).md} : p \in Checked}

MetadataReportsOf(Kind) ==
  {j \in DOMAIN Errors : /\ IsMetadataReport(Errors[j])
                         /\ Errors[j].name = F.name
                         /\ Errors[j].detail = "!" \o Kind}

\* C13: without allow-debug-metadata every named metadata node, every
\* attachment on an instruction and every declaration of dbg.declare or
\* dbg.value has its diagnostic; with it, a named metadata node whose name
\* starts with "llvm.dbg.", an attachment of kind dbg and the two
\* declarations have none, and every other named metadata node and
\* attachment still has its diagnostic.
C13_DebugMetadata ==
  /\ \A i \in Done("mod_namedmd") :
       Cardinality(Reports("Named metadata node ", M.namedMD[i],
                           NamedMetadataWords))
         = (IF AllowDebugMetadata /\ StartsWithLlvmDbg(M.namedMD[i])
            THEN 0 ELSE 1)
  /\ \A i \in Done("mod_functions") :
       M.functions[i].isIntrinsic /\ IsDebugIntrinsic(M.functions[i]) =>
         Cardinality(Reports("Function ", M.functions[i].name,
                             DisallowedIntrinsicWords))
           = (IF AllowDebugMetadata THEN 0 ELSE 1)
  /\ \A Kind \in AttachedKinds :
       Cardinality(MetadataReportsOf(Kind))
         = (IF AllowDebugMetadata /\ Kind = "dbg"
            THEN 0 ELSE Cardinality(AttachmentsOf(Kind)))

\* C13 happens: with allow-debug-metadata set, an instruction carrying !dbg
\* and !tbaa has been checked, and only !tbaa has been reported.
C13_Witness ==
  /\ pc = "fn_done"
  /\ AllowDebugMetadata
  /\ AttachmentsOf("dbg") # {}
  /\ AttachmentsOf("tbaa") # {}
  /\ MetadataReportsOf("dbg") = {}
  /\ MetadataReportsOf("tbaa") # {}


FunctionPassLabels == {"fn_walk", "fn_flush"}
RunningLabels == FunctionPassLabels \cup (ModulePassLabels \ {"mod_done"})

IsPrefix(s, t) == Len(s) <= Len(t) /\ SubSeq(t, 1, Len(s)) = s

\* C15: in every step of runOnFunction and runOnModule the function or
\* module handed to the pass and the two options stay as they are, the
\* Reporter's records are kept and at most extended at the end, and the
\* seen-entry-point flag changes in the module pass only; when either pass
\* returns it returns false, whether or not it recorded a diagnostic.
C15_NoModification ==
  [][/\ pc \in RunningLabels => /\ F' = F
                                /\ M' = M
                                /\ IsPrefix(Errors, Errors')
     /\ pc \in FunctionPassLabels => SeenEntryPoint' = SeenEntryPoint
     /\ AllowDebugMetadata' = AllowDebugMetadata
     /\ StreamingMode' = StreamingMode
     /\ Result' \in {"none", "false"}
     /\ pc \in RunningLabels /\ pc' \in {"fn_done", "mod_done"} =>
          Result' = "false"
    ]_vars

\* C15 happens: runOnFunction has returned false with diagnostics recorded,
\* and the function is the one it was handed.
C15_Witness ==
  /\ pc = "fn_done"
  /\ Errors # <<>>
  /\ Result = "false"
  /\ F \in Functions

(***************************************************************************)
(* Properties of isAllowedAlignment, checked under SpecAlignment.          *)
(***************************************************************************)
\* The size in bits of a vector's element, and the size in bytes of the
\* whole vector.
ElementBits(T) ==
  CASE T.elt.k = "int" -> T.elt.w
    [] T.elt.k = "float" -> 32
    [] T.elt.k = "double" -> 64
WholeVectorBytes(T) == (T.n * ElementBits(T) + 7) \div 8

Returned == AlignmentCall.Allowed # "none"

\* A <= UINT64_MAX / 8 says that the top three bits of A are zero.
StatedAllowed(A, T) ==
  /\ A.hi = 0
  /\ \/ T.k = "vec" /\ T.elt # I1 /\ A.lo * 8 = ElementBits(T)
     \/ /\ T.k # "vec"
        /\ A.lo = 1 \/ (T = DoubleTy /\ A.lo = 8) \/ (T = FloatTy /\ A.lo = 4)

\* C25 (as amended): isAllowedAlignment(A, T) is true if and only if
\* A <= UINT64_MAX / 8 and either T is a vector whose element type is not i1
\* and A * 8 is the bit size of T's element type, or T is not a vector and
\* A = 1, or T is double and A = 8, or T is float and A = 4.  So A = 0 is
\* never allowed, A = 1 is not allowed for a vector whose element is wider
\* than one byte, and for a vector of more than one element the size of the
\* whole vector is not allowed.
C25_AllowedAlignment ==
  LET A == AlignmentCall.Alignment
      T == AlignmentCall.Ty
  IN Returned =>
       /\ AlignmentCall.Allowed = "true" <=> StatedAllowed(A, T)
       /\ (A.hi = 0 /\ A.lo = 0) => AlignmentCall.Allowed = "false"
       /\ (T.k = "vec" /\ ElementBits(T) > 8 /\ A.hi = 0 /\ A.lo = 1)
            => AlignmentCall.Allowed = "false"
       /\ (T.k = "vec" /\ T.n > 1 /\ A.hi = 0 /\ A.lo = WholeVectorBytes(T))
            => AlignmentCall.Allowed = "false"

\* C25 happens: the alignment 2^61 + 1, whose product with 8 wraps to 8, has
\* been refused for <16 x i8>.
C25_Witness ==
  /\ AlignmentCall.Allowed = "false"
  /\ AlignmentCall.Alignment = [hi |-> 1, lo |-> 1]
  /\ AlignmentCall.Ty = VecTy(I8, 16)

\* C25 as stated: for every vector the size of the whole vector is not
\* allowed.
C25_AsStated ==
  LET A == AlignmentCall.Alignment
      T == AlignmentCall.Ty
  IN (Returned /\ T.k = "vec" /\ A.hi = 0 /\ A.lo = WholeVectorBytes(T))
       => AlignmentCall.Allowed = "false"

(***************************************************************************)
(* Properties of repeated runs of the module pass, checked under           *)
(* SpecRepeat.                                                             *)
(***************************************************************************)
\* What a first run on the module at hand adds to the Reporter.
FirstRunRecords == ModuleOutcome(M, StreamingMode, AllowDebugMetadata).errs

\* The records the Reporter holds at the end, as many as a first run adds.
LastRecords ==
  SubSeq(Errors, Len(Errors) - Len(FirstRunRecords) + 1, Len(Errors))

\* C28: whatever runs the pass object has made before, while runOnModule
\* runs the seen-entry-point flag is set exactly when an admissible entry of
\* the module at hand has been checked, and when it has returned the run has
\* added exactly the records of a first run on that module: none about entry
\* points for a module with one admissible entry, and "Module has no entry
\* point" alone for a module with none.
C28_NoLeakBetweenRuns ==
  /\ pc \in ModulePassLabels => (SeenEntryPoint <=> AdmissibleEntriesDone # {})
  /\ pc = "mod_done" =>
       /\ Len(FirstRunRecords) <= Len(Errors)
       /\ LastRecords = FirstRunRecords
       /\ Cardinality(AdmissibleEntries(M)) = 1 => EntryPointRecords(LastRecords) = <<>>
       /\ AdmissibleEntries(M) = {} =>
            EntryPointRecords(LastRecords) = <<NoEntryPointDiag>>

\* C28 happens: the second run since the Reporter was reset has returned, on
\* a module without entry, and the Reporter holds "Module has no entry
\* point" alone: the run before it was on a module with an entry and added
\* nothing.
C28_Witness ==
  /\ pc = "mod_done"
  /\ FatalChecks = 2
  /\ AdmissibleEntries(M) = {}
  /\ Errors = <<NoEntryPointDiag>>


====
